---- MODULE Spec2Model ----
\* The deterministic core of gitmate: the planners plan_* and their dispatcher
\* plan_by_intent, the intent detection and the rendering that enforce_policies
\* wraps around them, the output normalizers (src/src/gitmate/lib/postprocess.py)
\* and the repository probers (src/src/gitmate/lib/git_probes.py,
\* src/git_probes.py), modelled as the calls a caller makes on them, one call
\* at a time; the conversation history (src/src/gitmate/lib/history.py) and
\* the service that runs a request through all of them, step by step
\* (src/src/gitmate/lib/service.py, src/src/gitmate/anwser.py).
EXTENDS Integers, Sequences, FiniteSets, TLC

\* Largest staged_count / unstaged_count a call is made with.
MaxCount == 2

\* The longest command list _bash_block is called with.
MaxLines == 3

\* The most pieces a text handed to normalize_output is put together from.
MaxPieces == 3

\* The most files of one kind (staged, modified, untracked) a working tree holds.
MaxFiles == 1

\* The most conversations that are saved.
MaxSaves == 2

\* The most ticks the clock makes.
MaxTicks == 2

VARIABLES
    fn,               \* the function a caller is in: "none", "plan_by_intent", "enforce_policies",
                      \* "_bash_block", "normalize_output", "describe_repo", "discover_repo",
                      \* "get_git_context", "write_partial_json", "save_conversation",
                      \* "update_conversation_with_ai_response", "process_message",
                      \* "get_mlx_ai_response"
    intent,           \* the label plan_by_intent is called with, None when there is none
    ctx,              \* the GitContext the planners read
    plan,             \* the command list plan_by_intent returned (`planned`), or the
                      \* list _bash_block is called with
    user_message,     \* enforce_policies' arguments
    git_context_str,
    llm_output,       \* also the text normalize_output is called with
    out,              \* the text the call returned, None when there is none
    raised,           \* the exception that escaped the call, "" when there is none
    disk,             \* the process's working directory and the repository on disk
    svc,              \* the GitMateService instance and its position in process_message
    hist              \* the clock, the conversation files and the requests that saved one

vars == <<fn, intent, ctx, plan, user_message, git_context_str, llm_output, out, raised, disk, svc, hist>>

\* Text is a sequence of one-character strings, so that substring tests,
\* case folding and stripping are computed as the code computes them.

\* The literal command strings the planners emit.
\* 'git init'
GIT_INIT ==
    <<"g","i","t"," ","i","n","i","t">>
\* 'git switch main'
GIT_SWITCH_MAIN ==
    <<"g","i","t"," ","s","w","i","t","c","h"," ","m","a","i","n">>
\* 'git add .'
GIT_ADD_ALL ==
    <<"g","i","t"," ","a","d","d"," ",".">>
\* 'git commit -m "<message>"'
GIT_COMMIT_MESSAGE ==
    <<"g","i","t"," ","c","o","m","m","i","t"," ","-","m"," ","\"","<","m","e","s","s","a","g","e",">","\"">>
\* 'git remote add origin <url>'
GIT_REMOTE_ADD_ORIGIN_URL ==
    <<"g","i","t"," ","r","e","m","o","t","e"," ","a","d","d"," ","o","r","i","g","i","n"," ","<","u","r","l",">">>
\* 'git push'
GIT_PUSH ==
    <<"g","i","t"," ","p","u","s","h">>
\* 'git push -u origin main'
GIT_PUSH_UPSTREAM ==
    <<"g","i","t"," ","p","u","s","h"," ","-","u"," ","o","r","i","g","i","n"," ","m","a","i","n">>
\* 'git pull'
GIT_PULL ==
    <<"g","i","t"," ","p","u","l","l">>
\* 'git remote -v'
GIT_REMOTE_V ==
    <<"g","i","t"," ","r","e","m","o","t","e"," ","-","v">>
\* 'git branch feature'
GIT_BRANCH_FEATURE ==
    <<"g","i","t"," ","b","r","a","n","c","h"," ","f","e","a","t","u","r","e">>
\* 'git status'
GIT_STATUS ==
    <<"g","i","t"," ","s","t","a","t","u","s">>
\* 'git log --oneline'
GIT_LOG_ONELINE ==
    <<"g","i","t"," ","l","o","g"," ","-","-","o","n","e","l","i","n","e">>
\* 'N/A'
NA ==
    <<"N","/","A">>

\* The intent labels of the fixed vocabulary.
\* 'push to remote'
PUSH_TO_REMOTE ==
    <<"p","u","s","h"," ","t","o"," ","r","e","m","o","t","e">>
\* 'pull latest changes'
PULL_LATEST_CHANGES ==
    <<"p","u","l","l"," ","l","a","t","e","s","t"," ","c","h","a","n","g","e","s">>
\* 'show remotes'
SHOW_REMOTES ==
    <<"s","h","o","w"," ","r","e","m","o","t","e","s">>
\* 'add all files'
ADD_ALL_FILES ==
    <<"a","d","d"," ","a","l","l"," ","f","i","l","e","s">>
\* 'commit my changes'
COMMIT_MY_CHANGES ==
    <<"c","o","m","m","i","t"," ","m","y"," ","c","h","a","n","g","e","s">>
\* 'switch to main branch'
SWITCH_TO_MAIN_BRANCH ==
    <<"s","w","i","t","c","h"," ","t","o"," ","m","a","i","n"," ","b","r","a","n","c","h">>
\* 'create a new branch called feature'
CREATE_FEATURE_BRANCH ==
    <<"c","r","e","a","t","e"," ","a"," ","n","e","w"," ","b","r","a","n","c","h"," ","c","a","l","l","e","d"," ","f","e","a","t","u","r","e">>
\* 'initialize a repo'
INITIALIZE_A_REPO ==
    <<"i","n","i","t","i","a","l","i","z","e"," ","a"," ","r","e","p","o">>
\* 'show me the status'
SHOW_ME_THE_STATUS ==
    <<"s","h","o","w"," ","m","e"," ","t","h","e"," ","s","t","a","t","u","s">>
\* 'show commit history'
SHOW_COMMIT_HISTORY ==
    <<"s","h","o","w"," ","c","o","m","m","i","t"," ","h","i","s","t","o","r","y">>

\* ------------------------------------------------------------- text helpers

\* str.lower() on the ASCII letters.
lower_char(c) ==
    LET upper == <<"A","B","C","D","E","F","G","H","I","J","K","L","M","N","O","P","Q","R","S","T","U","V","W","X","Y","Z">>
        lower == <<"a","b","c","d","e","f","g","h","i","j","k","l","m","n","o","p","q","r","s","t","u","v","w","x","y","z">>
    IN  IF \E i \in 1..26 : upper[i] = c
            THEN lower[CHOOSE i \in 1..26 : upper[i] = c]
            ELSE c

lower(text) == [i \in 1..Len(text) |-> lower_char(text[i])]

\* The characters str.strip() removes and str(line).strip() tests for, of those
\* a TLA+ string can hold (form feed and vertical tab are left out).
WHITESPACE == {" ", "\t", "\n", "\r"}

RECURSIVE lstrip(_)
lstrip(text) ==
    IF text # <<>> /\ Head(text) \in WHITESPACE THEN lstrip(Tail(text)) ELSE text

RECURSIVE rstrip(_)
rstrip(text) ==
    IF text # <<>> /\ text[Len(text)] \in WHITESPACE
        THEN rstrip(SubSeq(text, 1, Len(text) - 1))
        ELSE text

strip(text) == rstrip(lstrip(text))

\* Python's `needle in text` on two strings.
contains(text, needle) ==
    \E i \in 1..(Len(text) - Len(needle) + 1) :
        SubSeq(text, i, i + Len(needle) - 1) = needle

\* any(k in text for k in keywords)
any_in(text, keywords) == \E k \in keywords : contains(text, k)

\* "\n".join(lines)
RECURSIVE join_lines(_)
join_lines(lines) ==
    IF lines = <<>> THEN <<>>
    ELSE IF Len(lines) = 1 THEN lines[1]
    ELSE lines[1] \o <<"\n">> \o join_lines(Tail(lines))

\* str.splitlines(): the line terminators "\n", "\r" and "\r\n" end a line
\* and are dropped; a terminator at the very end opens no further line.
line_terminator(text) ==
    IF \E i \in 1..Len(text) : text[i] \in {"\n", "\r"}
        THEN CHOOSE i \in 1..Len(text) :
                 /\ text[i] \in {"\n", "\r"}
                 /\ \A j \in 1..(i - 1) : text[j] \notin {"\n", "\r"}
        ELSE Len(text) + 1

RECURSIVE splitlines(_)
splitlines(text) ==
    IF text = <<>> THEN <<>>
    ELSE LET e == line_terminator(text)
             width == IF e > Len(text) THEN 0
                      ELSE IF text[e] = "\r" /\ e < Len(text) /\ text[e + 1] = "\n" THEN 2
                      ELSE 1
         IN  <<SubSeq(text, 1, e - 1)>> \o splitlines(SubSeq(text, e + width, Len(text)))

\* ------------------------------------------------------------- normalization

\* The index of the first character at or after i that `\s` does not match,
\* Len(text) + 1 when there is none: where a greedy `\s*` from i ends.
skip_spaces(text, i) ==
    IF \E j \in i..Len(text) : text[j] \notin WHITESPACE
        THEN CHOOSE j \in i..Len(text) :
                 /\ text[j] \notin WHITESPACE
                 /\ \A k \in i..(j - 1) : text[k] \in WHITESPACE
        ELSE Len(text) + 1

\* The same for `\S`: where a greedy `\S*` from i ends.
skip_non_spaces(text, i) ==
    IF \E j \in i..Len(text) : text[j] \in WHITESPACE
        THEN CHOOSE j \in i..Len(text) :
                 /\ text[j] \in WHITESPACE
                 /\ \A k \in i..(j - 1) : text[k] \notin WHITESPACE
        ELSE Len(text) + 1

\* Whether the literal, written in lower case, stands at i in any letter case
\* (the patterns are compiled with (?i)).
literal_at(text, i, literal) ==
    /\ i >= 1
    /\ i + Len(literal) - 1 <= Len(text)
    /\ lower(SubSeq(text, i, i + Len(literal) - 1)) = literal

\* A pattern word1\s+word2\s+...: the index after its match starting at i, 0
\* when it does not match there.
RECURSIVE words_end(_, _, _)
words_end(text, i, words) ==
    IF ~literal_at(text, i, Head(words)) THEN 0
    ELSE LET e == i + Len(Head(words))
             n == skip_spaces(text, e)
         IN  IF Len(words) = 1 THEN e
             ELSE IF n = e THEN 0
             ELSE words_end(text, n, Tail(words))

\* git\s+commit\s+-m, the group 2 of _COMMIT_RE.
COMMIT_HEAD == << <<"g","i","t">>, <<"c","o","m","m","i","t">>, <<"-","m">> >>

\* git\s+remote\s+add\s+origin, the group `head` of _REMOTE_ADD_RE.
REMOTE_HEAD == << <<"g","i","t">>, <<"r","e","m","o","t","e">>, <<"a","d","d">>, <<"o","r","i","g","i","n">> >>

\* The third group of _COMMIT_RE at p, a character `\s` does not match: a
\* double-quoted string, else a single-quoted one, else `\S+`. The index of
\* its last character.
message_end(line, p) ==
    LET closing(quote) == { q \in (p + 1)..Len(line) : line[q] = quote }
        first(S) == CHOOSE q \in S : \A r \in S : q <= r
    IN  IF line[p] = "\"" /\ closing("\"") # {} THEN first(closing("\""))
        ELSE IF line[p] = "'" /\ closing("'") # {} THEN first(closing("'"))
        ELSE skip_non_spaces(line, p) - 1

\* (git\s+commit\s+-m)\s+(...) with `git` at g: the index of the last
\* character of the match, 0 when there is no match.
commit_match_end(line, g) ==
    LET h == words_end(line, g, COMMIT_HEAD)
        p == skip_spaces(line, h)
    IN  IF h = 0 \/ p = h \/ p > Len(line) THEN 0 ELSE message_end(line, p)

\* "<message>" with the blank _repl puts before it.
MESSAGE_PLACEHOLDER == <<" ","\"","<","m","e","s","s","a","g","e",">","\"">>

\* Where `git` stands when _COMMIT_RE matches from j, 0 when it does not:
\* group 1 is the start of the line or one `\s` character.
commit_at(line, j) ==
    IF j = 1 /\ commit_match_end(line, 1) # 0 THEN 1
    ELSE IF line[j] \in WHITESPACE /\ commit_match_end(line, j + 1) # 0 THEN j + 1
    ELSE 0

\* _COMMIT_RE.sub(_repl, line), from index i on: the leftmost match is
\* replaced by group 1, group 2 and the placeholder, and the search goes on
\* behind it.
RECURSIVE commit_sub(_, _)
commit_sub(line, i) ==
    LET starts == { j \in i..Len(line) : commit_at(line, j) # 0 }
        g == commit_at(line, CHOOSE j \in starts : \A k \in starts : j <= k)
    IN  IF starts = {} THEN SubSeq(line, i, Len(line))
        ELSE SubSeq(line, i, words_end(line, g, COMMIT_HEAD) - 1)
                 \o MESSAGE_PLACEHOLDER
                 \o commit_sub(line, commit_match_end(line, g) + 1)

normalize_commit_messages(text) ==
    IF text = <<>> THEN text
    ELSE LET lines == splitlines(text)
         IN  join_lines([k \in 1..Len(lines) |-> commit_sub(lines[k], 1)])

\* _REMOTE_ADD_RE at s, the start of a line: the index after the match, 0
\* when there is none. `\s` matches line breaks too, so the indent, the gaps
\* and the trail can run over lines; `$` holds at the end of the text and
\* before a "\n", and the trail gives characters back until it holds.
remote_match_end(text, s) ==
    LET g == skip_spaces(text, s)
        h == words_end(text, g, REMOTE_HEAD)
        p == skip_spaces(text, h)
        u == skip_non_spaces(text, p)
        t == skip_spaces(text, u)
        breaks == { k \in u..(t - 1) : text[k] = "\n" }
    IN  IF h = 0 \/ p = h \/ p > Len(text) THEN 0
        ELSE IF t > Len(text) THEN t
        ELSE IF breaks # {} THEN CHOOSE k \in breaks : \A r \in breaks : r <= k
        ELSE 0

\* <url> with the blank _repl puts before it.
URL_PLACEHOLDER == <<" ","<","u","r","l",">">>

\* _REMOTE_ADD_RE.sub(_repl, text), from index i on; `^` holds at the start
\* of the text and behind a "\n". The leftmost match is replaced by the
\* indent, the head and the placeholder; the trail is dropped.
RECURSIVE remote_sub(_, _)
remote_sub(text, i) ==
    LET starts == { j \in i..Len(text) :
                      /\ j = 1 \/ text[j - 1] = "\n"
                      /\ remote_match_end(text, j) # 0 }
        s == CHOOSE j \in starts : \A k \in starts : j <= k
    IN  IF starts = {} THEN SubSeq(text, i, Len(text))
        ELSE SubSeq(text, i, words_end(text, skip_spaces(text, s), REMOTE_HEAD) - 1)
                 \o URL_PLACEHOLDER
                 \o remote_sub(text, remote_match_end(text, s))

normalize_remote_urls(text) ==
    IF text = <<>> THEN text ELSE remote_sub(text, 1)

normalize_output(text) == normalize_remote_urls(normalize_commit_messages(text))

\* Python's None; no text equals it (a text holds one-character strings only).
None == <<"None">>

_KNOWN_INTENTS ==
    { PUSH_TO_REMOTE, PULL_LATEST_CHANGES, SHOW_REMOTES, ADD_ALL_FILES,
      COMMIT_MY_CHANGES, SWITCH_TO_MAIN_BRANCH, CREATE_FEATURE_BRANCH,
      INITIALIZE_A_REPO, SHOW_ME_THE_STATUS, SHOW_COMMIT_HISTORY }

\* ---------------------------------------------------------------- GitContext

\* The dataclass GitContext: every combination of its fields a caller can build.
GitContext ==
    [ is_repo : BOOLEAN,
      branch : {None, <<"m","a","i","n">>},
      is_detached : BOOLEAN,
      staged_count : 0..MaxCount,
      unstaged_count : 0..MaxCount,
      has_uncommitted : BOOLEAN,
      remote_exists : BOOLEAN,
      upstream_set : BOOLEAN ]

\* worktree_state gone wrong: anything staged counts as "staged", whatever
\* is left unstaged.
worktree_state_staged_first(c) ==
    IF c.staged_count = 0 /\ c.unstaged_count = 0 THEN "clean"
    ELSE IF c.staged_count > 0 THEN "staged"
    ELSE IF c.unstaged_count > 0 THEN "unstaged"
    ELSE "partial"

worktree_state(c) ==
    IF c.staged_count = 0 /\ c.unstaged_count = 0 THEN "clean"
    ELSE IF c.staged_count > 0 /\ c.unstaged_count = 0 THEN "staged"
    ELSE IF c.staged_count = 0 /\ c.unstaged_count > 0 THEN "unstaged"
    ELSE "partial"

\* ------------------------------------------------------------------ planners

\* plan_commit gone wrong: a partial worktree is committed without staging.
plan_commit_partial_as_staged(c) ==
    IF ~c.is_repo THEN <<GIT_INIT, NA>>
    ELSE LET commands == IF c.is_detached THEN <<GIT_SWITCH_MAIN>> ELSE <<>>
         IN  IF worktree_state(c) = "unstaged"
                 THEN commands \o <<GIT_ADD_ALL, GIT_COMMIT_MESSAGE>>
             ELSE IF worktree_state(c) \in {"staged", "partial"}
                 THEN Append(commands, GIT_COMMIT_MESSAGE)
             ELSE Append(commands, NA)

\* plan_commit gone wrong: the staged and unstaged branches do not end the
\* function, so every plan falls through to the no-op entry.
plan_commit_missing_return(c) ==
    IF ~c.is_repo THEN <<GIT_INIT, NA>>
    ELSE LET commands == IF c.is_detached THEN <<GIT_SWITCH_MAIN>> ELSE <<>>
         IN  IF worktree_state(c) \in {"unstaged", "partial"}
                 THEN commands \o <<GIT_ADD_ALL, GIT_COMMIT_MESSAGE, NA>>
             ELSE IF worktree_state(c) = "staged"
                 THEN commands \o <<GIT_COMMIT_MESSAGE, NA>>
             ELSE Append(commands, NA)

plan_commit(c) ==
    IF ~c.is_repo THEN <<GIT_INIT, NA>>
    ELSE LET commands == IF c.is_detached THEN <<GIT_SWITCH_MAIN>> ELSE <<>>
         IN  IF worktree_state(c) \in {"unstaged", "partial"}
                 THEN commands \o <<GIT_ADD_ALL, GIT_COMMIT_MESSAGE>>
             ELSE IF worktree_state(c) = "staged"
                 THEN Append(commands, GIT_COMMIT_MESSAGE)
             ELSE Append(commands, NA)

\* plan_push gone wrong: the remote is added whenever the upstream is unset,
\* also when a remote exists.
plan_push_readds_remote(c) ==
    IF ~c.is_repo
        THEN <<GIT_INIT, GIT_REMOTE_ADD_ORIGIN_URL, GIT_PUSH_UPSTREAM>>
    ELSE LET detached == IF c.is_detached THEN <<GIT_SWITCH_MAIN>> ELSE <<>>
             local == IF worktree_state(c) \in {"unstaged", "partial"}
                          THEN <<GIT_ADD_ALL, GIT_COMMIT_MESSAGE>>
                      ELSE IF worktree_state(c) = "staged"
                          THEN <<GIT_COMMIT_MESSAGE>>
                      ELSE <<>>
             remote == IF c.remote_exists /\ c.upstream_set THEN <<GIT_PUSH>>
                       ELSE <<GIT_REMOTE_ADD_ORIGIN_URL, GIT_PUSH_UPSTREAM>>
         IN  detached \o local \o remote

\* plan_push gone wrong: the remote is added before the local changes are
\* committed.
plan_push_remote_first(c) ==
    IF ~c.is_repo
        THEN <<GIT_INIT, GIT_REMOTE_ADD_ORIGIN_URL, GIT_PUSH_UPSTREAM>>
    ELSE LET detached == IF c.is_detached THEN <<GIT_SWITCH_MAIN>> ELSE <<>>
             local == IF worktree_state(c) \in {"unstaged", "partial"}
                          THEN <<GIT_ADD_ALL, GIT_COMMIT_MESSAGE>>
                      ELSE IF worktree_state(c) = "staged"
                          THEN <<GIT_COMMIT_MESSAGE>>
                      ELSE <<>>
             remote == IF ~c.remote_exists THEN <<GIT_REMOTE_ADD_ORIGIN_URL>> ELSE <<>>
             push == IF c.remote_exists /\ c.upstream_set THEN <<GIT_PUSH>>
                     ELSE <<GIT_PUSH_UPSTREAM>>
         IN  detached \o remote \o local \o push

\* plan_push gone wrong: the push names the current branch.
plan_push_naming_branch(c) ==
    IF ~c.is_repo
        THEN <<GIT_INIT, GIT_REMOTE_ADD_ORIGIN_URL, GIT_PUSH_UPSTREAM>>
    ELSE LET detached == IF c.is_detached THEN <<GIT_SWITCH_MAIN>> ELSE <<>>
             local == IF worktree_state(c) \in {"unstaged", "partial"}
                          THEN <<GIT_ADD_ALL, GIT_COMMIT_MESSAGE>>
                      ELSE IF worktree_state(c) = "staged"
                          THEN <<GIT_COMMIT_MESSAGE>>
                      ELSE <<>>
             upstream == IF c.branch = None THEN GIT_PUSH_UPSTREAM
                         ELSE <<"g","i","t"," ","p","u","s","h"," ","-","u"," ","o","r","i","g","i","n"," ">> \o c.branch
             remote == IF ~c.remote_exists
                           THEN <<GIT_REMOTE_ADD_ORIGIN_URL, upstream>>
                       ELSE IF c.upstream_set THEN <<GIT_PUSH>>
                       ELSE <<upstream>>
         IN  detached \o local \o remote

plan_push(c) ==
    IF ~c.is_repo
        THEN <<GIT_INIT, GIT_REMOTE_ADD_ORIGIN_URL, GIT_PUSH_UPSTREAM>>
    ELSE LET detached == IF c.is_detached THEN <<GIT_SWITCH_MAIN>> ELSE <<>>
             local == IF worktree_state(c) \in {"unstaged", "partial"}
                          THEN <<GIT_ADD_ALL, GIT_COMMIT_MESSAGE>>
                      ELSE IF worktree_state(c) = "staged"
                          THEN <<GIT_COMMIT_MESSAGE>>
                      ELSE <<>>
             remote == IF ~c.remote_exists
                           THEN <<GIT_REMOTE_ADD_ORIGIN_URL, GIT_PUSH_UPSTREAM>>
                       ELSE IF c.upstream_set THEN <<GIT_PUSH>>
                       ELSE <<GIT_PUSH_UPSTREAM>>
         IN  detached \o local \o remote

\* plan_pull gone wrong: a remote is enough, the upstream is not looked at.
plan_pull_without_upstream(c) ==
    IF ~c.is_repo THEN <<NA>>
    ELSE IF ~c.remote_exists
        THEN IF c.is_detached THEN <<GIT_SWITCH_MAIN, NA>> ELSE <<NA>>
    ELSE IF c.is_detached THEN <<GIT_SWITCH_MAIN, GIT_PULL>>
    ELSE <<GIT_PULL>>

\* plan_pull gone wrong: no rule for a repository without an upstream, so the
\* plan holds the detached-HEAD switch at most.
plan_pull_without_fallback(c) ==
    IF ~c.is_repo THEN <<NA>>
    ELSE (IF c.is_detached THEN <<GIT_SWITCH_MAIN>> ELSE <<>>)
             \o (IF c.remote_exists /\ c.upstream_set THEN <<GIT_PULL>> ELSE <<>>)

plan_pull(c) ==
    IF ~c.is_repo THEN <<NA>>
    ELSE IF ~c.remote_exists \/ ~c.upstream_set
        THEN IF c.is_detached THEN <<GIT_SWITCH_MAIN, NA>> ELSE <<NA>>
    ELSE IF c.is_detached THEN <<GIT_SWITCH_MAIN, GIT_PULL>>
    ELSE <<GIT_PULL>>

plan_show_remotes(c) ==
    IF c.is_repo THEN <<GIT_REMOTE_V>> ELSE <<NA>>

\* plan_add_all gone wrong: no repository is initialised first.
plan_add_all_without_init(c) == <<GIT_ADD_ALL>>

plan_add_all(c) ==
    IF ~c.is_repo THEN <<GIT_INIT, GIT_ADD_ALL>> ELSE <<GIT_ADD_ALL>>

\* plan_switch_main gone wrong: nothing is planned when already on main.
plan_switch_main_skips_on_main(c) ==
    IF ~c.is_repo \/ c.branch = <<"m","a","i","n">> THEN <<NA>> ELSE <<GIT_SWITCH_MAIN>>

plan_switch_main(c) ==
    IF ~c.is_repo THEN <<NA>> ELSE <<GIT_SWITCH_MAIN>>

\* plan_create_feature gone wrong: a detached HEAD is not left first.
plan_create_feature_ignoring_detached(c) ==
    IF ~c.is_repo THEN <<GIT_INIT, GIT_BRANCH_FEATURE>> ELSE <<GIT_BRANCH_FEATURE>>

plan_create_feature(c) ==
    IF ~c.is_repo THEN <<GIT_INIT, GIT_BRANCH_FEATURE>>
    ELSE IF c.is_detached THEN <<GIT_SWITCH_MAIN, GIT_BRANCH_FEATURE>>
    ELSE <<GIT_BRANCH_FEATURE>>

plan_initialize_repo(c) ==
    IF ~c.is_repo THEN <<GIT_INIT>> ELSE <<NA>>

plan_show_status(c) ==
    IF c.is_repo THEN <<GIT_STATUS>> ELSE <<NA>>

\* plan_show_log gone wrong: the repository check is missing.
plan_show_log_without_repo_guard(c) == <<GIT_LOG_ONELINE>>

plan_show_log(c) ==
    IF c.is_repo THEN <<GIT_LOG_ONELINE>> ELSE <<NA>>

\* plan_by_intent gone wrong: the label is matched whatever its letter case,
\* so a label outside the vocabulary is taken for one inside it.
plan_by_intent_ignoring_case(intent_, c) ==
    IF lower(intent_) = PUSH_TO_REMOTE THEN plan_push(c)
    ELSE IF lower(intent_) = PULL_LATEST_CHANGES THEN plan_pull(c)
    ELSE IF lower(intent_) = SHOW_REMOTES THEN plan_show_remotes(c)
    ELSE IF lower(intent_) = ADD_ALL_FILES THEN plan_add_all(c)
    ELSE IF lower(intent_) = COMMIT_MY_CHANGES THEN plan_commit(c)
    ELSE IF lower(intent_) = SWITCH_TO_MAIN_BRANCH THEN plan_switch_main(c)
    ELSE IF lower(intent_) = CREATE_FEATURE_BRANCH THEN plan_create_feature(c)
    ELSE IF lower(intent_) = INITIALIZE_A_REPO THEN plan_initialize_repo(c)
    ELSE IF lower(intent_) = SHOW_ME_THE_STATUS THEN plan_show_status(c)
    ELSE IF lower(intent_) = SHOW_COMMIT_HISTORY THEN plan_show_log(c)
    ELSE <<NA>>

plan_by_intent(intent_, c) ==
    IF intent_ = PUSH_TO_REMOTE THEN plan_push(c)
    ELSE IF intent_ = PULL_LATEST_CHANGES THEN plan_pull(c)
    ELSE IF intent_ = SHOW_REMOTES THEN plan_show_remotes(c)
    ELSE IF intent_ = ADD_ALL_FILES THEN plan_add_all(c)
    ELSE IF intent_ = COMMIT_MY_CHANGES THEN plan_commit(c)
    ELSE IF intent_ = SWITCH_TO_MAIN_BRANCH THEN plan_switch_main(c)
    ELSE IF intent_ = CREATE_FEATURE_BRANCH THEN plan_create_feature(c)
    ELSE IF intent_ = INITIALIZE_A_REPO THEN plan_initialize_repo(c)
    ELSE IF intent_ = SHOW_ME_THE_STATUS THEN plan_show_status(c)
    ELSE IF intent_ = SHOW_COMMIT_HISTORY THEN plan_show_log(c)
    ELSE <<NA>>

\* ------------------------------------------------------------ detect_intent

detect_intent(user_text, llm_output_) ==
    LET text == lower(IF user_text = None THEN <<>> ELSE user_text)
        output == lower(IF llm_output_ = None THEN <<>> ELSE llm_output_)
    IN  \* Command-shape hints first
        IF contains(output, <<"g","i","t"," ","p","u","s","h">>) \/ contains(output, <<"g","i","t"," ","r","e","m","o","t","e"," ","a","d","d"," ","o","r","i","g","i","n">>)
            THEN PUSH_TO_REMOTE
        ELSE IF contains(output, <<"g","i","t"," ","p","u","l","l">>) THEN PULL_LATEST_CHANGES
        ELSE IF contains(output, <<"g","i","t"," ","r","e","m","o","t","e"," ","-","v">>) THEN SHOW_REMOTES
        ELSE IF contains(output, <<"g","i","t"," ","l","o","g"," ","-","-","o","n","e","l","i","n","e">>) THEN SHOW_COMMIT_HISTORY
        ELSE IF contains(output, <<"g","i","t"," ","s","t","a","t","u","s">>) THEN SHOW_ME_THE_STATUS
        ELSE IF contains(output, <<"g","i","t"," ","b","r","a","n","c","h"," ","f","e","a","t","u","r","e">>) THEN CREATE_FEATURE_BRANCH
        ELSE IF strip(output) = <<"g","i","t"," ","s","w","i","t","c","h"," ","m","a","i","n">> THEN SWITCH_TO_MAIN_BRANCH
        ELSE IF strip(output) = <<"g","i","t"," ","i","n","i","t">>
                \/ ( contains(output, <<"g","i","t"," ","i","n","i","t">>)
                     /\ ~contains(output, <<"g","i","t"," ","a","d","d"," ",".">>)
                     /\ ~contains(output, <<"g","i","t"," ","c","o","m","m","i","t"," ","-","m">>) )
            THEN INITIALIZE_A_REPO
        \* Natural-language hints
        ELSE IF any_in(text, {<<"p","u","s","h">>, <<"u","p","l","o","a","d">>, <<"p","u","b","l","i","s","h">>, <<"s","y","n","c"," ","u","p">>})
            THEN PUSH_TO_REMOTE
        ELSE IF any_in(text, {<<"p","u","l","l">>, <<"s","y","n","c"," ","d","o","w","n">>, <<"u","p","d","a","t","e">>, <<"g","e","t"," ","l","a","t","e","s","t">>})
            THEN PULL_LATEST_CHANGES
        ELSE IF any_in(text, {<<"r","e","m","o","t","e">>, <<"o","r","i","g","i","n">>, <<"u","r","l">>})
            THEN SHOW_REMOTES
        ELSE IF any_in(text, {<<"s","t","a","t","u","s">>, <<"w","h","a","t"," ","c","h","a","n","g","e","d">>, <<"s","t"," ">>})
            THEN SHOW_ME_THE_STATUS
        ELSE IF any_in(text, {<<"h","i","s","t","o","r","y">>, <<"l","o","g">>, <<"c","o","m","m","i","t","s">>})
            THEN SHOW_COMMIT_HISTORY
        ELSE IF any_in(text, {<<"a","d","d"," ","a","l","l">>, <<"s","t","a","g","e"," ","a","l","l">>, <<"s","t","a","g","e"," ","e","v","e","r","y","t","h","i","n","g">>})
            THEN ADD_ALL_FILES
        ELSE IF any_in(text, {<<"c","o","m","m","i","t">>, <<"s","a","v","e"," ","c","h","a","n","g","e","s">>})
            THEN COMMIT_MY_CHANGES
        ELSE IF any_in(text, {<<"s","w","i","t","c","h"," ","t","o"," ","m","a","i","n">>, <<"c","h","e","c","k","o","u","t"," ","m","a","i","n">>, <<"g","o"," ","t","o"," ","m","a","i","n">>, <<"m","a","s","t","e","r">>})
            THEN SWITCH_TO_MAIN_BRANCH
        ELSE IF any_in(text, {<<"n","e","w"," ","b","r","a","n","c","h">>, <<"f","e","a","t","u","r","e"," ","b","r","a","n","c","h">>})
            THEN CREATE_FEATURE_BRANCH
        ELSE IF any_in(text, {<<"i","n","i","t">>, <<"i","n","i","t","i","a","l","i","z","e"," ","r","e","p","o">>})
            THEN INITIALIZE_A_REPO
        ELSE None

\* --------------------------------------------------------------- _bash_block

\* [line for line in (lines or []) if str(line).strip()]
RECURSIVE cleaned_lines(_)
cleaned_lines(lines) ==
    IF lines = <<>> THEN <<>>
    ELSE IF strip(Head(lines)) # <<>>
        THEN <<Head(lines)>> \o cleaned_lines(Tail(lines))
        ELSE cleaned_lines(Tail(lines))

\* The backquote character, which a TLA+ string cannot hold, is this token.
BACKQUOTE == "backquote"

\* The fence line of a rendered block: three backquotes.
FENCE == <<BACKQUOTE, BACKQUOTE, BACKQUOTE>>

\* _bash_block gone wrong: the no-op entries are filtered with the blank ones.
_bash_block_dropping_no_ops(lines) ==
    LET is_command(line) == strip(line) # <<>> /\ strip(line) # NA
        cleaned == SelectSeq(lines, is_command)
        body == IF cleaned # <<>> THEN join_lines(cleaned) ELSE NA
    IN  FENCE \o <<"\n">> \o body \o <<"\n">> \o FENCE \o <<"\n">>

_bash_block(lines) ==
    LET cleaned == cleaned_lines(lines)
        body == IF cleaned # <<>> THEN join_lines(cleaned) ELSE NA
    IN  FENCE \o <<"\n">> \o body \o <<"\n">> \o FENCE \o <<"\n">>

\* ------------------------------------------------------- _parse_git_context

\* A YAML scalar as yaml.safe_load returns it, tagged with its Python type.
yaml_bool(b) == [t |-> "bool", b |-> b]
yaml_int(n) == [t |-> "int", n |-> n]
yaml_str(s) == [t |-> "str", s |-> s]
yaml_null == [t |-> "null"]

\* What yaml.safe_load makes of a git context string: a mapping (items holds
\* its keys), nothing at all (the empty string), a bare scalar, or a parse
\* error.
yaml_mapping(items) == [kind |-> "mapping", items |-> items]
yaml_empty == [kind |-> "empty", items |-> <<>>]
yaml_scalar == [kind |-> "scalar", items |-> <<>>]
yaml_error == [kind |-> "error", items |-> <<>>]

\* bool(value)
py_bool(v) ==
    CASE v.t = "bool" -> v.b
      [] v.t = "int" -> v.n # 0
      [] v.t = "str" -> v.s # <<>>
      [] OTHER -> FALSE

DIGITS == <<"0","1","2","3","4","5","6","7","8","9">>

is_digit(c) == \E i \in 1..10 : DIGITS[i] = c

digit_value(c) == (CHOOSE i \in 1..10 : DIGITS[i] = c) - 1

RECURSIVE digits_value(_)
digits_value(s) ==
    IF s = <<>> THEN 0
    ELSE 10 * digits_value(SubSeq(s, 1, Len(s) - 1)) + digit_value(s[Len(s)])

\* int(text) accepts surrounding whitespace, one sign and decimal digits.
int_literal_ok(s) ==
    LET body == strip(s)
        digits == IF body # <<>> /\ Head(body) \in {"+", "-"} THEN Tail(body) ELSE body
    IN  digits # <<>> /\ \A i \in 1..Len(digits) : is_digit(digits[i])

int_literal(s) ==
    LET body == strip(s)
    IN  IF Head(body) = "-" THEN 0 - digits_value(Tail(body))
        ELSE IF Head(body) = "+" THEN digits_value(Tail(body))
        ELSE digits_value(body)

\* int(value or 0) raises ValueError on a text that is no integer literal.
int_or_zero_raises(v) == v.t = "str" /\ v.s # <<>> /\ ~int_literal_ok(v.s)

int_or_zero(v) ==
    CASE v.t = "bool" -> IF v.b THEN 1 ELSE 0
      [] v.t = "int" -> v.n
      [] v.t = "str" -> IF v.s = <<>> THEN 0 ELSE int_literal(v.s)
      [] OTHER -> 0

\* data.get(key, default)
dict_get(items, key, default) ==
    IF key \in DOMAIN items THEN items[key] ELSE default

\* The exception _parse_git_context lets escape on this document, "" if none:
\* a bare scalar has no .get, a count may be no integer.
parse_git_context_raises(doc) ==
    IF doc.kind = "scalar" THEN "AttributeError"
    ELSE IF \/ int_or_zero_raises(dict_get(doc.items, "staged_count", yaml_int(0)))
            \/ int_or_zero_raises(dict_get(doc.items, "unstaged_count", yaml_int(0)))
        THEN "ValueError"
    ELSE ""

_parse_git_context(doc) ==
    LET data == doc.items
        branch == dict_get(data, "branch", yaml_null)
    IN  [ is_repo |-> py_bool(dict_get(data, "is_repo", yaml_bool(FALSE))),
          branch |-> IF branch.t = "str" THEN branch.s ELSE None,
          is_detached |-> py_bool(dict_get(data, "is_detached", yaml_bool(FALSE))),
          staged_count |-> int_or_zero(dict_get(data, "staged_count", yaml_int(0))),
          unstaged_count |-> int_or_zero(dict_get(data, "unstaged_count", yaml_int(0))),
          has_uncommitted |-> py_bool(dict_get(data, "has_uncommitted", yaml_bool(FALSE))),
          remote_exists |-> py_bool(dict_get(data, "remote_exists", yaml_bool(FALSE))),
          upstream_set |-> py_bool(dict_get(data, "upstream_set", yaml_bool(FALSE))) ]

\* --------------------------------------------------------- enforce_policies

\* The intent enforce_policies routes on, None when there is none.
routed_intent(user_message_, llm_output_) ==
    LET detected == detect_intent(user_message_, llm_output_)
    IN  IF detected = None /\ user_message_ \in _KNOWN_INTENTS
            THEN user_message_
            ELSE detected

\* enforce_policies gone wrong: without an intent the model's output is
\* normalized and returned.
planned_commands_returning_output(user_message_, doc, llm_output_) ==
    LET routed == routed_intent(user_message_, llm_output_)
    IN  IF routed = None THEN splitlines(normalize_output(llm_output_))
        ELSE plan_by_intent(routed, _parse_git_context(doc))

planned_commands(user_message_, doc, llm_output_) ==
    LET routed == routed_intent(user_message_, llm_output_)
    IN  IF routed = None THEN <<NA>>
        ELSE plan_by_intent(routed, _parse_git_context(doc))

enforce_policies(user_message_, doc, llm_output_) ==
    _bash_block(planned_commands(user_message_, doc, llm_output_))

\* ------------------------------------------------------------------- inputs

\* Labels a classifier can hand to plan_by_intent that are not in the
\* vocabulary: a made-up one, the not-a-git-request sentinel, the short name
\* of an intent, and a known label in another letter case.
UnknownLabels ==
    { <<"d","e","p","l","o","y">>, NA, <<"c","o","m","m","i","t">>, <<"P","u","s","h"," ","t","o"," ","r","e","m","o","t","e">> }

IntentLabels == _KNOWN_INTENTS \cup UnknownLabels

UserMessages ==
    { <<"p","u","s","h"," ","m","y"," ","w","o","r","k">>, <<"c","o","m","m","i","t"," ","m","y"," ","c","h","a","n","g","e","s">>, <<"W","h","a","t"," ","c","h","a","n","g","e","d","?">>,
      <<"l","i","s","t"," ","b","r","a","n","c","h","e","s">>, <<"t","e","l","l"," ","m","e"," ","a"," ","j","o","k","e">>, <<>> }

LlmOutputs ==
    { <<"g","i","t"," ","p","u","s","h"," ","o","r","i","g","i","n"," ","m","a","i","n">>, <<"G","I","T"," ","P","U","L","L">>, <<"g","i","t"," ","s","t","a","t","u","s">>,
      <<" "," ","g","i","t"," ","s","w","i","t","c","h"," ","m","a","i","n","\n">>,
      <<"g","i","t"," ","i","n","i","t">> \o <<"\n">> \o <<"g","i","t"," ","a","d","d"," ",".">>,
      <<"g","i","t"," ","c","h","e","c","k","o","u","t"," ","-","b"," ","w","i","p">>,
      <<"N","/","A">>, <<>> }

\* Entries of the lists _bash_block is called with: commands, the no-op entry,
\* an empty and a blank entry, an entry holding a line break and a fence.
RenderEntries ==
    { GIT_INIT, GIT_STATUS, NA, <<>>, <<" ">>,
      GIT_ADD_ALL \o <<"\n">> \o GIT_PUSH, FENCE }

RECURSIVE lists_up_to(_, _)
lists_up_to(entries, n) ==
    IF n = 0 THEN {<<>>}
    ELSE LET shorter == lists_up_to(entries, n - 1)
         IN  shorter \cup {Append(l, e) : l \in shorter, e \in entries}

RenderLists == lists_up_to(RenderEntries, MaxLines)

\* Pieces of the model outputs normalize_output is called with: the two
\* commands of the documentation, a commit with an unquoted message of two
\* words, one in upper case with an unterminated quote, an indented remote
\* command without URL, another command, a line break and a blank.
NormalizePieces ==
    { <<"g","i","t"," ","c","o","m","m","i","t"," ","-","m"," ","\"","f","i","x"," ","b","u","g","\"">>,
      <<"g","i","t"," ","c","o","m","m","i","t"," ","-","m"," ","f","i","x"," ","b","u","g">>,
      <<"G","I","T"," "," ","C","o","m","m","i","t"," ","-","M"," ","'","w","i","p">>,
      <<"g","i","t"," ","r","e","m","o","t","e"," ","a","d","d"," ","o","r","i","g","i","n"," ","h","t","t","p","s",":","/","/","x",".","g","i","t">>,
      <<" "," ","g","i","t"," ","r","e","m","o","t","e"," ","a","d","d"," ","o","r","i","g","i","n">>,
      <<"l","s">>,
      <<"\n">>,
      <<" ">> }

RECURSIVE texts_up_to(_, _)
texts_up_to(pieces, n) ==
    IF n = 0 THEN {<<>>}
    ELSE LET shorter == texts_up_to(pieces, n - 1)
         IN  shorter \cup {t \o piece : t \in shorter, piece \in pieces}

NormalizeTexts == texts_up_to(NormalizePieces, MaxPieces)

\* The YAML get_git_context dumps for a repository state.
dump_context(c) ==
    yaml_mapping(
        [ is_repo |-> yaml_bool(c.is_repo),
          branch |-> IF c.branch = None THEN yaml_null ELSE yaml_str(c.branch),
          is_detached |-> yaml_bool(c.is_detached),
          staged_count |-> yaml_int(c.staged_count),
          unstaged_count |-> yaml_int(c.unstaged_count),
          has_uncommitted |-> yaml_bool(c.has_uncommitted),
          remote_exists |-> yaml_bool(c.remote_exists),
          upstream_set |-> yaml_bool(c.upstream_set) ])

\* Git context strings no prober wrote: the empty string of a disabled git
\* context, text that is no YAML, a bare sentence, and hand-written mappings
\* with keys missing or values of another type.
OtherContextDocs ==
    { yaml_empty, yaml_error, yaml_scalar,
      yaml_mapping([is_repo |-> yaml_bool(TRUE)]),
      yaml_mapping([is_repo |-> yaml_str(<<"f","a","l","s","e">>), is_detached |-> yaml_int(1)]),
      yaml_mapping([is_repo |-> yaml_bool(TRUE), staged_count |-> yaml_str(<<" ","2">>),
                    unstaged_count |-> yaml_null]),
      yaml_mapping([is_repo |-> yaml_bool(TRUE), unstaged_count |-> yaml_str(<<"m","a","n","y">>)]) }

ContextDocs == {dump_context(c) : c \in GitContext} \cup OtherContextDocs

\* ------------------------------------------------------------------- probers

\* A directory is the tuple of the names that lead to it from the root
\* directory <<>>. The directories of the file systems probed.
Paths ==
    { <<>>, <<"work">>, <<"work", "src">>, <<"work", "src", "lib">>, <<"tmp">> }

\* A file system without a repository, the process being in directory cwd.
no_repository(cwd) ==
    [ cwd |-> cwd, root |-> None, head |-> None, head_sha |-> None,
      staged |-> 0, unstaged |-> 0, untracked |-> 0, remote_refs |-> {},
      config |-> [section |-> None, remote |-> None, merge |-> None],
      config_error |-> "", pushurl |-> FALSE, written |-> {} ]

\* What HEAD holds: the name of a branch ref, None for a commit id.
Heads ==
    { None, <<"r","e","f","s","/","h","e","a","d","s","/","m","a","i","n">>,
      <<"r","e","f","s","/","h","e","a","d","s","/","f","e","a","t","/","x">> }

\* The remote-tracking refs of a repository.
RemoteRefSets ==
    { {}, { <<"r","e","f","s","/","r","e","m","o","t","e","s","/","o","r","i","g","i","n","/","m","a","i","n">> },
      { <<"r","e","f","s","/","r","e","m","o","t","e","s","/","o","r","i","g","i","n","/","m","a","i","n">>,
        <<"r","e","f","s","/","r","e","m","o","t","e","s","/","o","r","i","g","i","n","/","x">> },
      { <<"r","e","f","s","/","r","e","m","o","t","e","s","/","o","r","i","g","i","n","/","m","a","i","n">>,
        <<"r","e","f","s","/","r","e","m","o","t","e","s","/","o","r","i","g","i","n","/","f","e","a","t","/","x">> } }

\* The [branch "<section>"] settings of a repository's configuration, None
\* for what is not set.
BranchConfigs ==
    { [section |-> None, remote |-> None, merge |-> None],
      [section |-> <<"m","a","i","n">>, remote |-> <<"o","r","i","g","i","n">>, merge |-> <<"r","e","f","s","/","h","e","a","d","s","/","m","a","i","n">>],
      [section |-> <<"m","a","i","n">>, remote |-> <<"o","r","i","g","i","n">>, merge |-> None],
      [section |-> <<"m","a","i","n">>, remote |-> <<"o","r","i","g","i","n">>, merge |-> <<"r","e","f","s","/","h","e","a","d","s","/","f","e","a","t","/","x">>],
      [section |-> <<"f","e","a","t","/","x">>, remote |-> <<"o","r","i","g","i","n">>, merge |-> <<"r","e","f","s","/","h","e","a","d","s","/","f","e","a","t","/","x">>] }

\* Whether the repository's configuration has a [remote "origin"] section:
\* remote-tracking refs and a branch's remote setting come with one.
has_remote_section(d) == d.remote_refs # {} \/ d.config.remote # None

\* The file systems probed: one without a repository, and one with a
\* (non-bare) repository whose root, the directory that holds .git, is any of
\* the directories; the process is in any directory. config_error is the
\* error that parsing the repository's configuration file raises ("" when
\* the file is well-formed), pushurl whether the remote section sets a
\* pushurl, written the files the probers have written so far.
Disks ==
    { no_repository(cwd) : cwd \in Paths }
    \cup { d \in [ cwd : Paths, root : Paths, head : Heads, head_sha : { <<"4","b","8","2","5","d","c">> },
                    staged : 0..MaxFiles, unstaged : 0..MaxFiles, untracked : 0..MaxFiles,
                    remote_refs : RemoteRefSets, config : BranchConfigs,
                    config_error : {"", "ValueError"}, pushurl : BOOLEAN, written : {{}} ] :
               d.pushurl => (has_remote_section(d) /\ d.config_error = "") }

\* Repo(path): dulwich opens a repository only in the directory that holds
\* .git, and raises NotGitRepository in any other.
Repo_opens(d, path) == d.root # None /\ d.root = path

\* Repo.discover(start): tries the directory and then each parent up to the
\* root directory; the directory it opens, None for NotGitRepository.
RECURSIVE Repo_discover(_, _)
Repo_discover(d, path) ==
    IF Repo_opens(d, path) THEN path
    ELSE IF path = <<>> THEN None
    ELSE Repo_discover(d, SubSeq(path, 1, Len(path) - 1))

\* Opening a repository reads its configuration file (the repository format
\* version): the error that raises, "" for none. Only a missing file is
\* taken for an empty configuration.
Repo_raises(d) == d.config_error

discover_repo(d, cwd) == Repo_discover(d, cwd)

\* The exception that escapes discover_repo(cwd), which catches
\* NotGitRepository only; "" for none.
discover_repo_raises(d, cwd) ==
    IF Repo_discover(d, cwd) = None THEN "" ELSE Repo_raises(d)

\* bytes.startswith
startswith(text, prefix) ==
    Len(prefix) <= Len(text) /\ SubSeq(text, 1, Len(prefix)) = prefix

\* text.rsplit(b"/", 1)[-1]: what follows the last "/".
rsplit_last(text) ==
    LET slashes == { i \in 1..Len(text) : text[i] = "/" }
        last == CHOOSE i \in slashes : \A j \in slashes : j <= i
    IN  IF slashes = {} THEN text ELSE SubSeq(text, last + 1, Len(text))

\* The branch name _follow_head returns, None when HEAD is on no branch.
_follow_head(d) ==
    IF d.head # None /\ startswith(d.head, <<"r","e","f","s","/","h","e","a","d","s","/">>)
        THEN rsplit_last(d.head)
        ELSE None

\* The GitContext describe_repo reports outside a repository.
NOT_A_REPO ==
    [ is_repo |-> FALSE, branch |-> None, is_detached |-> FALSE,
      staged_count |-> 0, unstaged_count |-> 0, has_uncommitted |-> FALSE,
      remote_exists |-> FALSE, upstream_set |-> FALSE ]

\* describe_repo gone wrong: NotGitRepository is not caught.
describe_repo_without_except(d) ==
    IF ~Repo_opens(d, d.cwd)
        THEN [raised |-> "NotGitRepository", doc |-> None]
    ELSE IF Repo_raises(d) # ""
        THEN [raised |-> Repo_raises(d), doc |-> None]
        ELSE [raised |-> "", doc |-> dump_context([NOT_A_REPO EXCEPT !.is_repo = TRUE])]

\* describe_repo gone wrong: untracked files are left out of unstaged_count.
describe_repo_not_counting_untracked(d) ==
    IF ~Repo_opens(d, d.cwd)
        THEN [raised |-> "", doc |-> dump_context(NOT_A_REPO)]
    ELSE IF Repo_raises(d) # ""
        THEN [raised |-> Repo_raises(d), doc |-> None]
    ELSE LET branch == _follow_head(d)
         IN  [ raised |-> "",
               doc |-> dump_context(
                   [ is_repo |-> TRUE,
                     branch |-> IF branch # None /\ branch # <<>> THEN branch ELSE d.head_sha,
                     is_detached |-> branch = None,
                     staged_count |-> d.staged,
                     unstaged_count |-> d.unstaged,
                     has_uncommitted |-> d.staged # 0 \/ d.unstaged # 0 \/ d.untracked # 0,
                     remote_exists |-> d.remote_refs # {},
                     upstream_set |-> FALSE ]) ]

\* describe_repo(): the exception that escapes it ("" for none) and the YAML
\* document it returns.
describe_repo(d) ==
    IF ~Repo_opens(d, d.cwd)
        THEN [raised |-> "", doc |-> dump_context(NOT_A_REPO)]
    ELSE IF Repo_raises(d) # ""
        THEN [raised |-> Repo_raises(d), doc |-> None]
    ELSE LET branch == _follow_head(d)
             is_detached == branch = None
             staged_count == d.staged
             unstaged_count == d.unstaged + d.untracked
             has_uncommitted == staged_count # 0 \/ unstaged_count # 0 \/ d.untracked # 0
             remote_exists == d.remote_refs # {}
             upstream_ref == <<"r","e","f","s","/","r","e","m","o","t","e","s","/">>
                                 \o d.config.remote \o <<"/">> \o rsplit_last(d.config.merge)
             upstream_set ==
                 IF is_detached \/ branch = <<>> THEN FALSE
                 ELSE IF d.config.section # branch \/ d.config.remote = None
                         \/ d.config.merge = None THEN FALSE
                 ELSE upstream_ref \in d.remote_refs
         IN  [ raised |-> "",
               doc |-> dump_context(
                   [ is_repo |-> TRUE,
                     branch |-> IF branch # None /\ branch # <<>> THEN branch ELSE d.head_sha,
                     is_detached |-> is_detached,
                     staged_count |-> staged_count,
                     unstaged_count |-> unstaged_count,
                     has_uncommitted |-> has_uncommitted,
                     remote_exists |-> remote_exists,
                     upstream_set |-> upstream_set ]) ]

\* The file get_git_context caches the repository status in, and the home
\* directory it lies under (in its .gitmate directory).
HOME == <<"home">>

REPO_STATUS_FILE == "repo_status.yaml"

\* The file write_partial_json writes into the directory it is given.
GIT_INFO_FILE == "git_info.json"

\* Whether directory path is the repository's root or lies beneath it.
inside_work_tree_of(d, path) ==
    /\ d.root # None
    /\ Len(d.root) <= Len(path)
    /\ SubSeq(path, 1, Len(d.root)) = d.root

\* The disk after a prober has written file name into directory path
\* (open(..., "w") creates or truncates it): a file that was not there and
\* lies in the working tree is one more untracked file.
file_written(d, path, name) ==
    IF name \in d.written THEN d
    ELSE [ d EXCEPT !.written = @ \cup {name},
                    !.untracked = IF inside_work_tree_of(d, path) THEN @ + 1 ELSE @ ]

\* get_git_context(): the exception that escapes it, the text it returns
\* (the document describe_repo dumped, loaded and dumped again) and the disk
\* it leaves.
get_git_context(d) ==
    LET described == describe_repo(d)
    IN  IF described.raised # ""
            THEN [raised |-> described.raised, doc |-> None, disk |-> d]
            ELSE [ raised |-> "", doc |-> described.doc,
                   disk |-> file_written(d, HOME, REPO_STATUS_FILE) ]

\* porcelain.active_branch(repo): the name after refs/heads/, None when it
\* raises because HEAD holds no branch ref.
active_branch(d) ==
    IF d.head # None /\ startswith(d.head, <<"r","e","f","s","/","h","e","a","d","s","/">>)
        THEN SubSeq(d.head, Len(<<"r","e","f","s","/","h","e","a","d","s","/">>) + 1, Len(d.head))
        ELSE None

\* text.split(b"/", 2)[-1]: what follows the second "/", the whole text when
\* it has fewer.
split_2_last(text) ==
    LET slashes == { i \in 1..Len(text) : text[i] = "/" }
        first == CHOOSE i \in slashes : \A j \in slashes : i <= j
        rest == slashes \ {first}
        second == CHOOSE i \in rest : \A j \in rest : i <= j
    IN  IF slashes = {} THEN text
        ELSE IF rest = {} THEN SubSeq(text, first + 1, Len(text))
        ELSE SubSeq(text, second + 1, Len(text))

\* current_branch(repo): the branch's name, "" when HEAD is detached.
current_branch(d) ==
    IF active_branch(d) # None /\ active_branch(d) # <<>>
        THEN active_branch(d)
    ELSE IF d.head # None /\ startswith(d.head, <<"r","e","f","s","/","h","e","a","d","s","/">>)
        THEN split_2_last(d.head)
    ELSE <<>>

NO_UPSTREAM == [short |-> <<>>, remote |-> <<>>, fullref |-> <<>>]

\* upstream_ref(repo, branch_name): the names of the branch's upstream, all
\* empty when the branch has no merge setting. get_branch_remote answers
\* "origin" for a branch without a remote setting.
upstream_ref(d, branch_name) ==
    IF branch_name = <<>> THEN NO_UPSTREAM
    ELSE IF d.config.section # branch_name \/ d.config.merge = None THEN NO_UPSTREAM
    ELSE LET remote_name == IF d.config.remote = None THEN <<"o","r","i","g","i","n">>
                            ELSE d.config.remote
             short == IF startswith(d.config.merge, <<"r","e","f","s","/","h","e","a","d","s","/">>)
                         THEN SubSeq(d.config.merge, 12, Len(d.config.merge))
                         ELSE d.config.merge
         IN  [ short |-> short, remote |-> remote_name,
               fullref |-> <<"r","e","f","s","/","r","e","m","o","t","e","s","/">>
                               \o remote_name \o <<"/">> \o short ]

\* The exception that escapes list_remotes(repo): cfg.get raises KeyError
\* for a remote section that sets no pushurl.
list_remotes_raises(d) ==
    IF has_remote_section(d) /\ ~d.pushurl THEN "KeyError" ELSE ""

\* write_partial_json(cwd): the exception that escapes it, what it wrote
\* into cwd/git_info.json (the status entries by their number; the commit
\* graph behind ahead_behind and the remotes' URLs are not on the modelled
\* disk) and the disk it leaves.
write_partial_json(d, cwd) ==
    LET repo == discover_repo(d, cwd)
        br == current_branch(d)
    IN  IF discover_repo_raises(d, cwd) # ""
            THEN [raised |-> discover_repo_raises(d, cwd), info |-> None, disk |-> d]
        ELSE IF repo = None
            THEN [ raised |-> "", info |-> [is_inside_work_tree |-> FALSE],
                   disk |-> file_written(d, cwd, GIT_INFO_FILE) ]
        ELSE IF list_remotes_raises(d) # ""
            THEN [raised |-> list_remotes_raises(d), info |-> None, disk |-> d]
        ELSE [ raised |-> "",
               info |-> [ is_inside_work_tree |-> TRUE, toplevel |-> repo, branch |-> br,
                          upstream |-> upstream_ref(d, br),
                          git_status |-> d.staged + d.unstaged + d.untracked ],
               disk |-> file_written(d, cwd, GIT_INFO_FILE) ]

\* ------------------------------------------------------------------ history

\* The clock counts ticks; datetime.now() formatted with %S keeps the whole
\* second a tick falls in.
TICKS_PER_SECOND == 2

second_of(clock) == clock \div TICKS_PER_SECOND

DECIMALS == <<"0", "1", "2", "3", "4", "5", "6", "7", "8", "9">>

\* strftime: the second as text.
strftime(clock) == <<DECIMALS[second_of(clock) + 1]>>

\* generate_filename(): conversation_<timestamp>.yaml
generate_filename(clock) ==
    <<"c","o","n","v","e","r","s","a","t","i","o","n","_">> \o strftime(clock)
        \o <<".","y","a","m","l">>

\* The conversation files after open(name, "w") and a dump of data: a file of
\* that name is replaced.
file_dumped(files, name, data) ==
    { f \in files : f.name # name } \cup { [name |-> name, data |-> data] }

\* Nothing was saved yet; the clock is at its start.
NoHistory == [clock |-> 0, files |-> {}, calls |-> <<>>]

\* save_conversation(message): the path it returns and the files it leaves.
save_conversation(h, message) ==
    LET filepath == generate_filename(h.clock)
        conversation_data ==
            [ user_input |-> message, created_at |-> strftime(h.clock),
              updated_at |-> strftime(h.clock), AI_response |-> None ]
    IN  [ filepath |-> filepath,
          files |-> file_dumped(h.files, filepath, conversation_data) ]

\* update_conversation_with_ai_response(filepath, ai_response): whether it
\* returns True, and the files it leaves. A file that cannot be opened makes
\* it return False.
update_conversation_with_ai_response(h, filepath, ai_response) ==
    IF \A f \in h.files : f.name # filepath
        THEN [ok |-> FALSE, files |-> h.files]
    ELSE LET file == CHOOSE f \in h.files : f.name = filepath
             new_data == [ file.data EXCEPT !.updated_at = strftime(h.clock),
                                            !.AI_response = ai_response ]
         IN  [ok |-> TRUE, files |-> file_dumped(h.files, filepath, new_data)]

\* The messages conversations are saved for, and the response a request
\* attaches for its message.
HistoryMessages ==
    { <<"p","u","s","h"," ","m","y"," ","w","o","r","k">>, <<"W","h","a","t"," ","c","h","a","n","g","e","d","?">> }

response_to(message) == <<"r","e",":"," ">> \o message

\* The service no request uses.
NoService ==
    [ git_context_enabled |-> TRUE, model_installed |-> TRUE, model_loaded |-> FALSE,
      pc |-> "idle", validated_context |-> None, filepath |-> None ]

\* ------------------------------------------------------------------ service

\* The services that are constructed: the user's configuration enables or
\* disables the git context, and a model is installed or is not.
Services ==
    { [NoService EXCEPT !.git_context_enabled = enabled, !.model_installed = installed] :
          enabled \in BOOLEAN, installed \in BOOLEAN }

PLEASE_INITIALIZE ==
    <<"p","l","e","a","s","e"," ","i","n","i","t","i","a","l","i","z","e"," ","t","h","e"," ","r","e","p","o"," ","w","i","t","h",":"," ","g","i","t"," ","i","n","i","t">>

\* _get_git_context_str(): get_git_context() when the git context is
\* enabled, the empty string otherwise.
_get_git_context_str(service, d) ==
    IF service.git_context_enabled THEN get_git_context(d)
    ELSE [raised |-> "", doc |-> yaml_empty, disk |-> d]

\* _validate_git_repository gone wrong: the check is skipped for every
\* context.
_validate_git_repository_skipping(doc) == None

\* What _validate_git_repository returns for the context string it got: the
\* fixed text, or None. A context that is no mapping raises inside the try
\* and the check is skipped.
_validate_git_repository(doc) ==
    IF doc = yaml_empty THEN None
    ELSE IF doc.kind # "mapping" THEN None
    ELSE IF ~py_bool(dict_get(doc.items, "is_repo", yaml_bool(FALSE))) THEN PLEASE_INITIALIZE
    ELSE None

\* The try block of process_message: the result it leaves. When
\* enforce_policies raises, the normalized output stays in result.
post_processed(message, doc, result) ==
    IF parse_git_context_raises(doc) # ""
        THEN normalize_output(result)
        ELSE enforce_policies(message, doc, normalize_output(result))

\* The import in get_mlx_ai_response's try block raises ImportError:
\* gitmate/postprocess.py defines normalize_commit_messages,
\* normalize_remote_urls and normalize_output, and no enforce_policies.
postprocess_import_raises == "ImportError"

\* get_mlx_ai_response(message, git_context_str, system_prompt): what it
\* returns when the model generated result.
get_mlx_ai_response(message, doc, result) ==
    IF postprocess_import_raises # "" THEN result
    ELSE post_processed(message, doc, result)

\* The file systems a service works on: the process is in /work, which holds
\* no repository, a clean repository on main, one with changes and an
\* upstream, one on a detached HEAD, or one whose configuration is corrupt.
ServiceDisks ==
    LET work == [ no_repository(<<"work">>) EXCEPT
                      !.root = <<"work">>,
                      !.head = <<"r","e","f","s","/","h","e","a","d","s","/","m","a","i","n">>,
                      !.head_sha = <<"4","b","8","2","5","d","c">> ]
    IN  { no_repository(<<"work">>),
          work,
          [ work EXCEPT !.unstaged = 1,
                        !.remote_refs = { <<"r","e","f","s","/","r","e","m","o","t","e","s","/","o","r","i","g","i","n","/","m","a","i","n">> },
                        !.config = [ section |-> <<"m","a","i","n">>,
                                     remote |-> <<"o","r","i","g","i","n">>,
                                     merge |-> <<"r","e","f","s","/","h","e","a","d","s","/","m","a","i","n">> ] ],
          [ work EXCEPT !.head = None, !.staged = 1 ],
          [ work EXCEPT !.config_error = "ValueError" ] }

\* The messages users send and the texts the model generates.
ServiceMessages ==
    { <<"p","u","s","h"," ","m","y"," ","w","o","r","k">>, <<"t","e","l","l"," ","m","e"," ","a"," ","j","o","k","e">> }

ServiceOutputs ==
    { <<"g","i","t"," ","p","u","s","h"," ","o","r","i","g","i","n"," ","m","a","i","n">>,
      <<"g","i","t"," ","c","h","e","c","k","o","u","t"," ","-","b"," ","w","i","p">>,
      <<"N","/","A">> }

\* ------------------------------------------------------------ state machine

\* The GitContext of an empty mapping; what ctx holds while no call is made.
NoContext == _parse_git_context(yaml_empty)

\* No call is being made.
Idle ==
    /\ fn = "none"
    /\ intent = None
    /\ ctx = NoContext
    /\ plan = <<>>
    /\ user_message = None
    /\ git_context_str = yaml_empty
    /\ llm_output = None
    /\ out = None
    /\ raised = ""

\* The planner and the post-processor read nothing from the disk: it is the
\* root directory of a file system without a repository.
Init == Idle /\ disk = no_repository(<<>>) /\ svc = NoService /\ hist = NoHistory

\* The probers start in any directory of any of the file systems.
ProbeInit == Idle /\ disk \in Disks /\ svc = NoService /\ hist = NoHistory

\* A caller calls plan_by_intent(label, c).
PlanCall ==
    /\ fn = "none"
    /\ \E label \in IntentLabels, c \in GitContext :
        /\ fn' = "plan_by_intent"
        /\ intent' = label
        /\ ctx' = c
        /\ plan' = plan_by_intent(label, c)
    /\ UNCHANGED <<user_message, git_context_str, llm_output, out, raised, disk, svc, hist>>

\* A caller calls enforce_policies(message, doc, output).
EnforceCall ==
    /\ fn = "none"
    /\ \E message \in UserMessages, doc \in ContextDocs, output \in LlmOutputs :
        /\ fn' = "enforce_policies"
        /\ user_message' = message
        /\ git_context_str' = doc
        /\ llm_output' = output
        /\ UNCHANGED <<disk, svc, hist>>
        /\ IF parse_git_context_raises(doc) # ""
              THEN /\ raised' = parse_git_context_raises(doc)
                   /\ UNCHANGED <<intent, ctx, plan, out>>
              ELSE /\ ctx' = _parse_git_context(doc)
                   /\ intent' = routed_intent(message, output)
                   /\ plan' = planned_commands(message, doc, output)
                   /\ out' = enforce_policies(message, doc, output)
                   /\ UNCHANGED raised

\* A caller calls _bash_block(lines); plan holds the list it is called with.
RenderCall ==
    /\ fn = "none"
    /\ \E lines \in RenderLists :
        /\ fn' = "_bash_block"
        /\ plan' = lines
        /\ out' = _bash_block(lines)
    /\ UNCHANGED <<intent, ctx, user_message, git_context_str, llm_output, raised, disk, svc, hist>>

\* A caller calls normalize_output(text), as process_message does with the
\* model's output.
NormalizeCall ==
    /\ fn = "none"
    /\ \E text \in NormalizeTexts :
        /\ fn' = "normalize_output"
        /\ llm_output' = text
        /\ out' = normalize_output(text)
    /\ UNCHANGED <<intent, ctx, plan, user_message, git_context_str, raised, disk, svc, hist>>

\* A caller calls describe_repo(); out holds the YAML document it returns.
DescribeRepoCall ==
    /\ fn = "none"
    /\ fn' = "describe_repo"
    /\ raised' = describe_repo(disk).raised
    /\ out' = describe_repo(disk).doc
    /\ UNCHANGED <<intent, ctx, plan, user_message, git_context_str, llm_output, disk, svc, hist>>

\* A caller calls discover_repo(cwd) with the working directory; out holds
\* the root of the repository it returns, None when it returns None.
DiscoverRepoCall ==
    /\ fn = "none"
    /\ fn' = "discover_repo"
    /\ raised' = discover_repo_raises(disk, disk.cwd)
    /\ out' = IF discover_repo_raises(disk, disk.cwd) = ""
                  THEN discover_repo(disk, disk.cwd) ELSE None
    /\ UNCHANGED <<intent, ctx, plan, user_message, git_context_str, llm_output, disk, svc, hist>>

\* A caller calls get_git_context(); out holds the text it returns.
GetGitContextCall ==
    /\ fn = "none"
    /\ fn' = "get_git_context"
    /\ raised' = get_git_context(disk).raised
    /\ out' = get_git_context(disk).doc
    /\ disk' = get_git_context(disk).disk
    /\ UNCHANGED <<intent, ctx, plan, user_message, git_context_str, llm_output, svc, hist>>

\* A caller calls write_partial_json(cwd) with the working directory; out
\* holds what it wrote into the file.
WritePartialJsonCall ==
    /\ fn = "none"
    /\ fn' = "write_partial_json"
    /\ raised' = write_partial_json(disk, disk.cwd).raised
    /\ out' = write_partial_json(disk, disk.cwd).info
    /\ disk' = write_partial_json(disk, disk.cwd).disk
    /\ UNCHANGED <<intent, ctx, plan, user_message, git_context_str, llm_output, svc, hist>>

\* A request calls save_conversation(message) and keeps the path it returns;
\* out holds that path.
SaveConversationCall ==
    /\ fn = "none"
    /\ Len(hist.calls) < MaxSaves
    /\ \E message \in HistoryMessages :
        LET saved == save_conversation(hist, message)
        IN  /\ fn' = "save_conversation"
            /\ user_message' = message
            /\ out' = saved.filepath
            /\ hist' = [ hist EXCEPT !.files = saved.files,
                                     !.calls = Append(@, [ filepath |-> saved.filepath,
                                                           message |-> message,
                                                           answered |-> FALSE ]) ]
    /\ UNCHANGED <<intent, ctx, plan, git_context_str, llm_output, raised, disk, svc>>

\* A request that saved a conversation calls
\* update_conversation_with_ai_response with its path and the response to
\* its message; out holds the truth value returned.
UpdateConversationCall ==
    /\ fn = "none"
    /\ \E i \in 1..Len(hist.calls) :
        LET updated == update_conversation_with_ai_response(
                           hist, hist.calls[i].filepath, response_to(hist.calls[i].message))
        IN  /\ ~hist.calls[i].answered
            /\ fn' = "update_conversation_with_ai_response"
            /\ user_message' = hist.calls[i].message
            /\ out' = IF updated.ok THEN <<"True">> ELSE <<"False">>
            /\ hist' = [ hist EXCEPT !.files = updated.files,
                                     !.calls[i].answered = TRUE ]
    /\ UNCHANGED <<intent, ctx, plan, git_context_str, llm_output, raised, disk, svc>>

\* Time passes.
Tick ==
    /\ hist.clock < MaxTicks
    /\ hist' = [hist EXCEPT !.clock = @ + 1]
    /\ UNCHANGED <<fn, intent, ctx, plan, user_message, git_context_str, llm_output, out,
                   raised, disk, svc>>

\* A caller calls process_message(message): the repository is validated on a
\* first git context. out holds the text returned.
ProcessMessageCall ==
    /\ fn = "none" /\ svc.pc = "idle"
    /\ Len(hist.calls) < MaxSaves
    /\ \E message \in ServiceMessages :
        LET probed == _get_git_context_str(svc, disk)
            validation_error == _validate_git_repository(probed.doc)
        IN  /\ fn' = "process_message"
            /\ user_message' = message
            /\ disk' = probed.disk
            /\ IF probed.raised # ""
                  THEN /\ raised' = probed.raised
                       /\ svc' = [svc EXCEPT !.pc = "raised"]
                       /\ UNCHANGED out
               ELSE IF validation_error # None
                  THEN /\ out' = validation_error
                       /\ svc' = [svc EXCEPT !.pc = "returned", !.validated_context = probed.doc]
                       /\ UNCHANGED raised
               ELSE /\ svc' = [svc EXCEPT !.pc = "validated", !.validated_context = probed.doc]
                    /\ UNCHANGED <<out, raised>>
    /\ UNCHANGED <<intent, ctx, plan, git_context_str, llm_output, hist>>

\* process_message goes on: _ensure_model_loaded loads the model unless the
\* service holds it already.
LoadModelStep ==
    /\ fn = "process_message" /\ svc.pc = "validated"
    /\ IF svc.model_loaded
          THEN svc' = [svc EXCEPT !.pc = "loaded"] /\ UNCHANGED raised
       ELSE IF ~svc.model_installed
          THEN svc' = [svc EXCEPT !.pc = "raised"] /\ raised' = "RuntimeError"
       ELSE svc' = [svc EXCEPT !.pc = "loaded", !.model_loaded = TRUE] /\ UNCHANGED raised
    /\ UNCHANGED <<fn, intent, ctx, plan, user_message, git_context_str, llm_output, out,
                   disk, hist>>

\* process_message goes on: the git context the model and the planner get.
ContextStep ==
    /\ fn = "process_message" /\ svc.pc = "loaded"
    /\ LET probed == _get_git_context_str(svc, disk)
       IN  /\ disk' = probed.disk
           /\ IF probed.raised # ""
                 THEN /\ raised' = probed.raised
                      /\ svc' = [svc EXCEPT !.pc = "raised"]
                      /\ UNCHANGED git_context_str
                 ELSE /\ git_context_str' = probed.doc
                      /\ svc' = [svc EXCEPT !.pc = "probed"]
                      /\ UNCHANGED raised
    /\ UNCHANGED <<fn, intent, ctx, plan, user_message, llm_output, out, hist>>

\* process_message goes on: the user's message is saved.
SaveStep ==
    /\ fn = "process_message" /\ svc.pc = "probed"
    /\ LET saved == save_conversation(hist, user_message)
       IN  /\ svc' = [svc EXCEPT !.pc = "saved", !.filepath = saved.filepath]
           /\ hist' = [ hist EXCEPT !.files = saved.files,
                                    !.calls = Append(@, [ filepath |-> saved.filepath,
                                                          message |-> user_message,
                                                          answered |-> FALSE ]) ]
    /\ UNCHANGED <<fn, intent, ctx, plan, user_message, git_context_str, llm_output, out,
                   raised, disk>>

\* process_message ends: the model generates a text, which is post-processed,
\* written into the conversation file and returned.
RespondStep ==
    /\ fn = "process_message" /\ svc.pc = "saved"
    /\ \E generated \in ServiceOutputs :
        LET result == post_processed(user_message, git_context_str, generated)
            updated == update_conversation_with_ai_response(hist, svc.filepath, result)
            i == Len(hist.calls)
        IN  /\ llm_output' = generated
            /\ IF parse_git_context_raises(git_context_str) # ""
                  THEN UNCHANGED <<intent, ctx, plan>>
                  ELSE /\ ctx' = _parse_git_context(git_context_str)
                       /\ intent' = routed_intent(user_message, normalize_output(generated))
                       /\ plan' = planned_commands(user_message, git_context_str,
                                                   normalize_output(generated))
            /\ hist' = [hist EXCEPT !.files = updated.files, !.calls[i].answered = TRUE]
            /\ IF updated.ok
                  THEN /\ out' = result
                       /\ svc' = [svc EXCEPT !.pc = "returned"]
                       /\ UNCHANGED raised
                  ELSE /\ raised' = "RuntimeError"
                       /\ svc' = [svc EXCEPT !.pc = "raised"]
                       /\ UNCHANGED out
    /\ UNCHANGED <<fn, user_message, git_context_str, disk>>

\* The caller of process_message takes the result or the exception; the
\* service keeps its model.
ServiceReturn ==
    /\ fn = "process_message" /\ svc.pc \in {"returned", "raised"}
    /\ fn' = "none"
    /\ intent' = None
    /\ ctx' = NoContext
    /\ plan' = <<>>
    /\ user_message' = None
    /\ git_context_str' = yaml_empty
    /\ llm_output' = None
    /\ out' = None
    /\ raised' = ""
    /\ svc' = [svc EXCEPT !.pc = "idle", !.validated_context = None, !.filepath = None]
    /\ UNCHANGED <<disk, hist>>

\* Someone else changes the repository the service works on, at any time.
RepositoryChange ==
    /\ \E d \in ServiceDisks :
        /\ [d EXCEPT !.written = disk.written] # disk
        /\ disk' = [d EXCEPT !.written = disk.written]
    /\ UNCHANGED <<fn, intent, ctx, plan, user_message, git_context_str, llm_output, out,
                   raised, svc, hist>>

\* A caller calls get_mlx_ai_response(message, git_context_str,
\* system_prompt) of gitmate/anwser.py; out holds the text returned.
GetMlxAiResponseCall ==
    /\ fn = "none" /\ svc.pc = "idle"
    /\ \E message \in ServiceMessages, generated \in ServiceOutputs :
        /\ fn' = "get_mlx_ai_response"
        /\ user_message' = message
        /\ git_context_str' = (IF describe_repo(disk).raised = ""
                                  THEN describe_repo(disk).doc ELSE yaml_empty)
        /\ llm_output' = generated
        /\ out' = get_mlx_ai_response(message,
                      (IF describe_repo(disk).raised = "" THEN describe_repo(disk).doc ELSE yaml_empty),
                      generated)
    /\ UNCHANGED <<intent, ctx, plan, raised, disk, svc, hist>>

\* The caller takes the result; nothing of the call is kept.
Return ==
    /\ fn \notin {"none", "process_message"}
    /\ fn' = "none"
    /\ intent' = None
    /\ ctx' = NoContext
    /\ plan' = <<>>
    /\ user_message' = None
    /\ git_context_str' = yaml_empty
    /\ llm_output' = None
    /\ out' = None
    /\ raised' = ""
    /\ UNCHANGED <<disk, svc, hist>>

Next == PlanCall \/ EnforceCall \/ Return

Spec == Init /\ [][Next]_vars

\* _bash_block on its own.
RenderNext == RenderCall \/ Return

RenderSpec == Init /\ [][RenderNext]_vars

\* normalize_output on its own.
NormalizeNext == NormalizeCall \/ Return

NormalizeSpec == Init /\ [][NormalizeNext]_vars

\* The probers on their own.
ProbeNext ==
    \/ DescribeRepoCall \/ DiscoverRepoCall
    \/ GetGitContextCall \/ WritePartialJsonCall
    \/ Return

ProbeSpec == ProbeInit /\ [][ProbeNext]_vars

\* The conversation history on its own: requests of one or several processes
\* save and update in any order.
HistoryNext == SaveConversationCall \/ UpdateConversationCall \/ Tick \/ Return

HistorySpec == Init /\ [][HistoryNext]_vars

\* The service: requests one after the other, each going through the steps
\* of process_message, while the repository changes and time passes.
ServiceInit == Idle /\ disk \in ServiceDisks /\ svc \in Services /\ hist = NoHistory

ServiceNext ==
    \/ ProcessMessageCall \/ LoadModelStep \/ ContextStep \/ SaveStep \/ RespondStep
    \/ ServiceReturn
    \/ GetMlxAiResponseCall \/ Return
    \/ RepositoryChange \/ Tick

ServiceSpec == ServiceInit /\ [][ServiceNext]_vars

\* -------------------------------------------------------------- properties

\* plan holds plan_by_intent(intent, ctx): plan_by_intent was called, or
\* enforce_policies routed to it.
Planned ==
    \/ fn = "plan_by_intent"
    \/ fn = "enforce_policies" /\ raised = "" /\ intent # None

\* Whether command is one of the plan's commands.
InPlan(command) == \E k \in 1..Len(plan) : plan[k] = command

\* C2, as claimed: a label outside the vocabulary gives the message
\* "Unknown intent: <label>" naming that label.
C2_UnknownIntentMessage ==
    (Planned /\ intent \notin _KNOWN_INTENTS) =>
        plan = << <<"U","n","k","n","o","w","n"," ","i","n","t","e","n","t",":"," ">> \o intent >>

\* C2, amended: a label outside the vocabulary gives the plan ["N/A"], the
\* no-op sentinel, which does not name the label; no exception escapes and no
\* command is planned, whatever the GitContext.
C2_UnknownIntentIsNoOp ==
    (Planned /\ intent \notin _KNOWN_INTENTS) => (plan = <<NA>> /\ raised = "")

C2_Witness ==
    /\ fn = "plan_by_intent"
    /\ intent = <<"P","u","s","h"," ","t","o"," ","r","e","m","o","t","e">>
    /\ ctx.is_repo /\ ~ctx.remote_exists /\ ctx.unstaged_count > 0
    /\ plan = <<NA>>

\* The intents C3 is about: all but init, add, push and branch-create.
DominatedIntents ==
    { COMMIT_MY_CHANGES, PULL_LATEST_CHANGES, SHOW_ME_THE_STATUS,
      SHOW_COMMIT_HISTORY, SHOW_REMOTES, SWITCH_TO_MAIN_BRANCH }

\* C3, as claimed: outside a repository commit, pull, status, log, remote-list
\* and switch-to-main all give one and the same response (the one pull,
\* status, log, remote-list and switch-to-main give), whatever the other
\* fields.
C3_NotARepoDominance ==
    (Planned /\ intent \in DominatedIntents /\ ~ctx.is_repo) => plan = <<NA>>

\* C3, amended: outside a repository pull, status, log, remote-list and
\* switch-to-main give ["N/A"] and commit gives ["git init", "N/A"], whatever
\* the other fields.
C3_NotARepoResponses ==
    (Planned /\ intent \in DominatedIntents /\ ~ctx.is_repo) =>
        plan = IF intent = COMMIT_MY_CHANGES THEN <<GIT_INIT, NA>> ELSE <<NA>>

C3_Witness ==
    /\ Planned /\ intent = SHOW_COMMIT_HISTORY /\ ~ctx.is_repo
    /\ ctx.is_detached /\ ctx.staged_count > 0 /\ ctx.unstaged_count > 0
    /\ ctx.remote_exists /\ ctx.upstream_set
    /\ plan = <<NA>>

\* The intents that work on the current branch.
BranchRelativeIntents ==
    { COMMIT_MY_CHANGES, PUSH_TO_REMOTE, CREATE_FEATURE_BRANCH }

\* C4, as claimed: for commit, push and branch-create a detached HEAD makes
\* "git switch main" the first command, whatever the other fields.
C4_DetachedSwitchFirst ==
    (Planned /\ intent \in BranchRelativeIntents /\ ctx.is_detached) =>
        plan[1] = GIT_SWITCH_MAIN

\* C4, amended: for commit, push and branch-create, is_repo together with a
\* detached HEAD makes "git switch main" the first command, whatever the
\* other fields.
C4_DetachedSwitchFirstInRepo ==
    (Planned /\ intent \in BranchRelativeIntents /\ ctx.is_repo /\ ctx.is_detached) =>
        plan[1] = GIT_SWITCH_MAIN

C4_Witness ==
    /\ Planned /\ intent = CREATE_FEATURE_BRANCH
    /\ ctx.is_repo /\ ctx.is_detached
    /\ plan = <<GIT_SWITCH_MAIN, GIT_BRANCH_FEATURE>>

\* C5: commit in a repository on a branch is decided by worktree_state alone:
\* clean gives ["N/A"], staged gives the commit alone, unstaged and partial
\* give "git add ." then the commit; remote and upstream change nothing.
C5_CommitByWorktreeState ==
    (Planned /\ intent = COMMIT_MY_CHANGES /\ ctx.is_repo /\ ~ctx.is_detached) =>
        plan = CASE worktree_state(ctx) = "clean" -> <<NA>>
                 [] worktree_state(ctx) = "staged" -> <<GIT_COMMIT_MESSAGE>>
                 [] OTHER -> <<GIT_ADD_ALL, GIT_COMMIT_MESSAGE>>

C5_Witness ==
    /\ Planned /\ intent = COMMIT_MY_CHANGES /\ ctx.is_repo /\ ~ctx.is_detached
    /\ ctx.staged_count > 0 /\ ctx.unstaged_count > 0
    /\ ctx.remote_exists /\ ~ctx.upstream_set
    /\ plan = <<GIT_ADD_ALL, GIT_COMMIT_MESSAGE>>

\* C6: push in a repository adds the origin remote exactly when none exists,
\* directly before the push; the last command is "git push" exactly when
\* remote and upstream both exist and "git push -u origin main" otherwise.
C6_PushRemoteGuard ==
    (Planned /\ intent = PUSH_TO_REMOTE /\ ctx.is_repo) =>
        /\ InPlan(GIT_REMOTE_ADD_ORIGIN_URL) <=> ~ctx.remote_exists
        /\ \A k \in 1..Len(plan) :
              plan[k] = GIT_REMOTE_ADD_ORIGIN_URL => k = Len(plan) - 1
        /\ plan[Len(plan)] = IF ctx.remote_exists /\ ctx.upstream_set
                                 THEN GIT_PUSH ELSE GIT_PUSH_UPSTREAM
        /\ (~ctx.is_detached /\ worktree_state(ctx) = "clean" /\ ~ctx.remote_exists)
              => plan = <<GIT_REMOTE_ADD_ORIGIN_URL, GIT_PUSH_UPSTREAM>>
        /\ ( ctx.is_detached /\ worktree_state(ctx) = "clean"
             /\ ctx.remote_exists /\ ~ctx.upstream_set )
              => plan = <<GIT_SWITCH_MAIN, GIT_PUSH_UPSTREAM>>

C6_Witness ==
    /\ Planned /\ intent = PUSH_TO_REMOTE /\ ctx.is_repo /\ ctx.is_detached
    /\ worktree_state(ctx) = "clean" /\ ctx.remote_exists /\ ~ctx.upstream_set
    /\ plan = <<GIT_SWITCH_MAIN, GIT_PUSH_UPSTREAM>>

\* The place of a command in the prerequisite order of a push plan, 0 for a
\* command that has none.
PushRank(command) ==
    CASE command = GIT_INIT -> 1
      [] command = GIT_SWITCH_MAIN -> 2
      [] command = GIT_ADD_ALL -> 3
      [] command = GIT_COMMIT_MESSAGE -> 4
      [] command = GIT_REMOTE_ADD_ORIGIN_URL -> 5
      [] command \in {GIT_PUSH, GIT_PUSH_UPSTREAM} -> 6
      [] OTHER -> 0

\* C7: a push plan holds init, switch-to-main, stage, commit, add-remote and
\* push in that order, each at most once, and ends with a push; in a
\* repository it commits exactly when the worktree is not clean and stages
\* exactly when unstaged_count > 0; outside one it is init, add remote,
\* push-with-upstream.
C7_PushOrder ==
    (Planned /\ intent = PUSH_TO_REMOTE) =>
        /\ \A k \in 1..Len(plan) : PushRank(plan[k]) > 0
        /\ \A j, k \in 1..Len(plan) : j < k => PushRank(plan[j]) < PushRank(plan[k])
        /\ plan # <<>> /\ PushRank(plan[Len(plan)]) = 6
        /\ ctx.is_repo =>
              /\ InPlan(GIT_COMMIT_MESSAGE) <=> worktree_state(ctx) # "clean"
              /\ InPlan(GIT_ADD_ALL) <=> ctx.unstaged_count > 0
        /\ ~ctx.is_repo =>
              plan = <<GIT_INIT, GIT_REMOTE_ADD_ORIGIN_URL, GIT_PUSH_UPSTREAM>>

C7_Witness ==
    /\ Planned /\ intent = PUSH_TO_REMOTE /\ ctx.is_repo /\ ctx.is_detached
    /\ ctx.staged_count > 0 /\ ctx.unstaged_count > 0 /\ ~ctx.remote_exists
    /\ plan = << GIT_SWITCH_MAIN, GIT_ADD_ALL, GIT_COMMIT_MESSAGE,
                 GIT_REMOTE_ADD_ORIGIN_URL, GIT_PUSH_UPSTREAM >>

\* C8: a pull plan holds "git pull" exactly when is_repo, remote_exists and
\* upstream_set are all true; otherwise it is ["N/A"], or ["git switch main",
\* "N/A"] and then only in a repository with a detached HEAD; with all three
\* true on a branch it is ["git pull"].
C8_PullGuard ==
    (Planned /\ intent = PULL_LATEST_CHANGES) =>
        LET can_pull == ctx.is_repo /\ ctx.remote_exists /\ ctx.upstream_set
        IN  /\ InPlan(GIT_PULL) <=> can_pull
            /\ ~can_pull =>
                  /\ plan \in { <<NA>>, <<GIT_SWITCH_MAIN, NA>> }
                  /\ plan = <<GIT_SWITCH_MAIN, NA>> => (ctx.is_repo /\ ctx.is_detached)
            /\ (can_pull /\ ~ctx.is_detached) => plan = <<GIT_PULL>>

C8_Witness ==
    /\ Planned /\ intent = PULL_LATEST_CHANGES
    /\ ctx.is_repo /\ ctx.is_detached /\ ctx.remote_exists /\ ~ctx.upstream_set
    /\ plan = <<GIT_SWITCH_MAIN, NA>>

\* C9: outside a repository commit gives ["git init", "N/A"], add gives
\* ["git init", "git add ."], branch-create gives ["git init", "git branch
\* feature"] and init gives ["git init"]; inside one no plan holds "git init";
\* and "git init" is only ever the first command.
C9_InitFirst ==
    Planned =>
        /\ ~ctx.is_repo =>
              /\ intent = COMMIT_MY_CHANGES => plan = <<GIT_INIT, NA>>
              /\ intent = ADD_ALL_FILES => plan = <<GIT_INIT, GIT_ADD_ALL>>
              /\ intent = CREATE_FEATURE_BRANCH => plan = <<GIT_INIT, GIT_BRANCH_FEATURE>>
              /\ intent = INITIALIZE_A_REPO => plan = <<GIT_INIT>>
        /\ ctx.is_repo => ~InPlan(GIT_INIT)
        /\ \A k \in 1..Len(plan) : plan[k] = GIT_INIT => k = 1

C9_Witness ==
    /\ Planned /\ intent = ADD_ALL_FILES /\ ~ctx.is_repo
    /\ ctx.is_detached /\ ctx.remote_exists
    /\ plan = <<GIT_INIT, GIT_ADD_ALL>>

\* C10: in a repository status, log, remote-list, add and switch-to-main give
\* their one command in every state (detached or not, any worktree, remote
\* and upstream, on main or not), and init gives ["N/A"].
C10_SingleCommands ==
    (Planned /\ ctx.is_repo) =>
        /\ intent = SHOW_ME_THE_STATUS => plan = <<GIT_STATUS>>
        /\ intent = SHOW_COMMIT_HISTORY => plan = <<GIT_LOG_ONELINE>>
        /\ intent = SHOW_REMOTES => plan = <<GIT_REMOTE_V>>
        /\ intent = ADD_ALL_FILES => plan = <<GIT_ADD_ALL>>
        /\ intent = SWITCH_TO_MAIN_BRANCH => plan = <<GIT_SWITCH_MAIN>>
        /\ intent = INITIALIZE_A_REPO => plan = <<NA>>

C10_Witness ==
    /\ Planned /\ intent = SWITCH_TO_MAIN_BRANCH
    /\ ctx.is_repo /\ ~ctx.is_detached /\ ctx.branch = <<"m","a","i","n">>
    /\ ctx.unstaged_count > 0
    /\ plan = <<GIT_SWITCH_MAIN>>

\* The literal git commands the planners are written with.
LiteralCommands ==
    { GIT_INIT, GIT_SWITCH_MAIN, GIT_ADD_ALL, GIT_COMMIT_MESSAGE,
      GIT_REMOTE_ADD_ORIGIN_URL, GIT_PUSH, GIT_PUSH_UPSTREAM, GIT_PULL,
      GIT_REMOTE_V, GIT_BRANCH_FEATURE, GIT_STATUS, GIT_LOG_ONELINE }

\* C11, as claimed: a plan is either a sequence of literal git commands or
\* the single sentinel "N/A"; the sentinel never stands next to a git command.
C11_SentinelAlone ==
    Planned =>
        \/ plan = <<NA>>
        \/ \A k \in 1..Len(plan) : plan[k] \in LiteralCommands

\* C11, amended: every entry of a plan is a literal git command or the
\* sentinel "N/A"; the sentinel occurs at most once and only as the last
\* entry, and the only plans that hold it next to a git command are
\* ["git init", "N/A"] (commit outside a repository) and
\* ["git switch main", "N/A"] (commit with nothing to commit, or pull without
\* an upstream, on a detached HEAD).
C11_SentinelLast ==
    Planned =>
        /\ plan # <<>>
        /\ \A k \in 1..Len(plan) : plan[k] \in LiteralCommands \cup {NA}
        /\ \A k \in 1..Len(plan) : plan[k] = NA => k = Len(plan)
        /\ (InPlan(NA) /\ Len(plan) > 1) =>
               \/ /\ plan = <<GIT_INIT, NA>>
                  /\ intent = COMMIT_MY_CHANGES /\ ~ctx.is_repo
               \/ /\ plan = <<GIT_SWITCH_MAIN, NA>>
                  /\ intent \in {COMMIT_MY_CHANGES, PULL_LATEST_CHANGES}
                  /\ ctx.is_repo /\ ctx.is_detached

C11_Witness ==
    /\ Planned /\ intent = PULL_LATEST_CHANGES
    /\ ctx.is_repo /\ ctx.is_detached /\ ~ctx.upstream_set
    /\ plan = <<GIT_SWITCH_MAIN, NA>>

\* The body of a rendered block: what stands between the two fence lines.
block_body(block) == SubSeq(block, Len(FENCE) + 2, Len(block) - Len(FENCE) - 2)

\* A block with this body.
block_of(body) == FENCE \o <<"\n">> \o body \o <<"\n">> \o FENCE \o <<"\n">>

\* The lines of a text that open with a fence.
fence_lines(text) ==
    { k \in 1..Len(splitlines(text)) :
        SubSeq(splitlines(text)[k], 1, Len(FENCE)) = FENCE }

\* C12, as claimed: the block's body holds the entries that are neither empty
\* nor the no-op entry "N/A", in order, one per line ("N/A" when none is
\* left), and rendering the lines of the body again gives the same block.
C12_RenderDropsNoOps ==
    fn = "_bash_block" =>
        LET is_command(line) == strip(line) # <<>> /\ line # NA
            remaining == SelectSeq(plan, is_command)
        IN  /\ out = block_of(IF remaining # <<>> THEN join_lines(remaining) ELSE NA)
            /\ fence_lines(out) = {1, Len(splitlines(out))}
            /\ splitlines(block_body(out)) = (IF remaining # <<>> THEN remaining ELSE <<NA>>)
            /\ _bash_block(splitlines(block_body(out))) = out

\* C12, amended: the block's body holds the entries that are not empty or
\* blank, in order, joined by line breaks; "N/A" is an entry like any other
\* and is kept; the body is "N/A" when nothing is left. With no backquote in
\* the entries the output is exactly one fenced block; with no line break in
\* the entries the body has one entry per line and rendering the lines of the
\* body again gives the same block.
C12_RenderDropsBlanks ==
    fn = "_bash_block" =>
        LET not_blank(line) == strip(line) # <<>>
            remaining == SelectSeq(plan, not_blank)
            no_backquote == \A k \in 1..Len(plan) : ~contains(plan[k], <<BACKQUOTE>>)
            no_line_break == \A k \in 1..Len(plan) : Len(splitlines(plan[k])) <= 1
        IN  /\ out = block_of(IF remaining # <<>> THEN join_lines(remaining) ELSE NA)
            /\ no_backquote => fence_lines(out) = {1, Len(splitlines(out))}
            /\ no_line_break =>
                   /\ splitlines(block_body(out)) =
                          (IF remaining # <<>> THEN remaining ELSE <<NA>>)
                   /\ _bash_block(splitlines(block_body(out))) = out

C12_Witness ==
    /\ fn = "_bash_block"
    /\ plan = <<GIT_INIT, <<" ">>, NA>>
    /\ out = block_of(GIT_INIT \o <<"\n">> \o NA)

\* C13: normalizing twice gives what normalizing once gives, for
\* normalize_output and for normalize_commit_messages and
\* normalize_remote_urls each on its own.
C13_NormalizeIdempotent ==
    fn = "normalize_output" =>
        /\ normalize_output(out) = out
        /\ normalize_commit_messages(normalize_commit_messages(llm_output))
               = normalize_commit_messages(llm_output)
        /\ normalize_remote_urls(normalize_remote_urls(llm_output))
               = normalize_remote_urls(llm_output)

\* Whether the line holds `git commit -m` or `git remote add origin`, in any
\* letter case and at any place.
has_head(line) ==
    \E j \in 1..Len(line) :
        words_end(line, j, COMMIT_HEAD) # 0 \/ words_end(line, j, REMOTE_HEAD) # 0

\* C14: after normalize_output every `git commit -m <argument>` carries
\* "<message>" and every `git remote add origin <argument>` line carries
\* <url>, as in the two documented examples; the lines stay the lines they
\* were, and text without either command comes back unchanged.
C14_NormalizeOnlyArguments ==
    fn = "normalize_output" =>
        LET before == splitlines(llm_output)
            after == splitlines(out)
        IN  /\ llm_output = <<"g","i","t"," ","c","o","m","m","i","t"," ","-","m"," ","\"","f","i","x"," ","b","u","g","\"">>
                   => out = GIT_COMMIT_MESSAGE
            /\ llm_output = <<"g","i","t"," ","r","e","m","o","t","e"," ","a","d","d"," ","o","r","i","g","i","n"," ","h","t","t","p","s",":","/","/","x",".","g","i","t">>
                   => out = GIT_REMOTE_ADD_ORIGIN_URL
            /\ \A k \in 1..Len(after) : \A j \in 1..Len(after[k]) :
                   commit_at(after[k], j) # 0 =>
                       LET h == words_end(after[k], commit_at(after[k], j), COMMIT_HEAD)
                       IN  SubSeq(after[k], h, h + Len(MESSAGE_PLACEHOLDER) - 1)
                               = MESSAGE_PLACEHOLDER
            /\ \A k \in 1..Len(after) :
                   remote_match_end(after[k], 1) # 0 =>
                       LET h == words_end(after[k], skip_spaces(after[k], 1), REMOTE_HEAD)
                       IN  SubSeq(after[k], h, Len(after[k])) = URL_PLACEHOLDER
            /\ Len(after) = Len(before)
            /\ \A k \in 1..Len(before) :
                   (~has_head(before[k]) /\ k <= Len(after)) => after[k] = before[k]
            /\ (\A k \in 1..Len(before) : ~has_head(before[k])) => out = llm_output

\* C15: when the model's output is the not-a-git-request label "N/A" the
\* response is the one fixed no-op block, whatever the user's text and the
\* repository state, and no git command is planned.
C15_NotApplicableIsRefused ==
    (fn = "enforce_policies" /\ raised = "" /\ strip(llm_output) = NA) =>
        /\ plan = <<NA>>
        /\ out = block_of(NA)

C17_PlannerTotal ==
    (Planned /\ intent \in _KNOWN_INTENTS) =>
        /\ raised = ""
        /\ Len(plan) >= 1
        /\ \A k \in 1..Len(plan) : plan[k] \in LiteralCommands \cup {NA}

C17_Witness ==
    /\ fn = "plan_by_intent" /\ intent = PULL_LATEST_CHANGES
    /\ ctx.is_repo /\ ~ctx.is_detached /\ ctx.remote_exists /\ ~ctx.upstream_set
    /\ ctx.staged_count = MaxCount /\ ctx.unstaged_count = MaxCount
    /\ plan = <<NA>>

\* C18: worktree_state is clean exactly when both counts are 0, staged
\* exactly when only staged_count is above 0, unstaged exactly when only
\* unstaged_count is, partial exactly when both are; and the commit and push
\* planners stage and commit by this classification: "git add ." for unstaged
\* and partial, the commit for all but clean.
C18_WorktreeClassification ==
    Planned =>
        LET s == ctx.staged_count
            u == ctx.unstaged_count
            w == worktree_state(ctx)
        IN  /\ w \in {"clean", "staged", "unstaged", "partial"}
            /\ w = "clean" <=> (s = 0 /\ u = 0)
            /\ w = "staged" <=> (s > 0 /\ u = 0)
            /\ w = "unstaged" <=> (s = 0 /\ u > 0)
            /\ w = "partial" <=> (s > 0 /\ u > 0)
            /\ (intent \in {COMMIT_MY_CHANGES, PUSH_TO_REMOTE} /\ ctx.is_repo) =>
                   /\ InPlan(GIT_ADD_ALL) <=> (s = 0 /\ u > 0) \/ (s > 0 /\ u > 0)
                   /\ InPlan(GIT_COMMIT_MESSAGE) <=> ~(s = 0 /\ u = 0)

C18_Witness ==
    /\ Planned /\ intent = PUSH_TO_REMOTE /\ ctx.is_repo
    /\ ctx.staged_count > 0 /\ ctx.unstaged_count > 0
    /\ worktree_state(ctx) = "partial"
    /\ InPlan(GIT_ADD_ALL) /\ InPlan(GIT_COMMIT_MESSAGE)

\* Whether the process's directory is inside a working tree: the repository's
\* root or a directory beneath it.
InsideWorkTree ==
    /\ disk.root # None
    /\ Len(disk.root) <= Len(disk.cwd)
    /\ SubSeq(disk.cwd, 1, Len(disk.root)) = disk.root

C20_IsRepoIffInsideWorkTree ==
    /\ (fn = "describe_repo" /\ raised = "") =>
           (out.items.is_repo = yaml_bool(TRUE) <=> InsideWorkTree)
    /\ (fn = "discover_repo" /\ raised = "") => (out # None <=> InsideWorkTree)

\* Whether HEAD holds the name of a local branch ref, and that branch's short
\* name: everything after refs/heads/.
OnBranch == disk.head # None /\ startswith(disk.head, <<"r","e","f","s","/","h","e","a","d","s","/">>)

ShortName == SubSeq(disk.head, 12, Len(disk.head))

\* C21: when HEAD resolves to a local branch ref refs/heads/<name>, the
\* prober reports is_detached=false and branch equal to <name>, everything
\* after refs/heads/, also for names that contain "/"; in every other case it
\* reports is_detached=true and no branch name, at most the raw commit id.
C21_BranchIsShortName ==
    /\ (fn = "describe_repo" /\ raised = "" /\ out.items.is_repo = yaml_bool(TRUE)) =>
           IF OnBranch
              THEN /\ out.items.is_detached = yaml_bool(FALSE)
                   /\ out.items.branch = yaml_str(ShortName)
              ELSE /\ out.items.is_detached = yaml_bool(TRUE)
                   /\ out.items.branch \in {yaml_null, yaml_str(disk.head_sha)}
    /\ (fn = "write_partial_json" /\ raised = "" /\ out.is_inside_work_tree) =>
           out.branch = IF OnBranch THEN ShortName ELSE <<>>

\* The remote-tracking ref of the checked-out branch's upstream:
\* refs/remotes/<remote>/<upstream-short-name>, the short name being what
\* follows refs/heads/ in the branch's merge setting.
UpstreamTrackingRef ==
    <<"r","e","f","s","/","r","e","m","o","t","e","s","/">> \o disk.config.remote \o <<"/">>
        \o SubSeq(disk.config.merge, 12, Len(disk.config.merge))

\* C22: upstream_set is true if and only if HEAD is on a branch, that branch
\* has both a configured remote name and a configured merge target, and the
\* remote-tracking ref refs/remotes/<remote>/<upstream-short-name> exists.
C22_UpstreamSetIff ==
    (fn = "describe_repo" /\ raised = "" /\ out.items.is_repo = yaml_bool(TRUE)) =>
        ( out.items.upstream_set = yaml_bool(TRUE)
          <=> /\ OnBranch
              /\ disk.config.section = ShortName
              /\ disk.config.remote # None
              /\ disk.config.merge # None
              /\ UpstreamTrackingRef \in disk.remote_refs )

\* A read error awaits the prober in the branch configuration: the file does
\* not parse, or the checked-out branch lacks its section, its remote or its
\* merge setting.
ConfigReadError ==
    \/ disk.config_error # ""
    \/ OnBranch /\ ( \/ disk.config.section # ShortName
                     \/ disk.config.remote = None
                     \/ disk.config.merge = None )

\* C23: a read error met while the prober inspects the branch or remote
\* configuration (a missing key, a missing value, a corrupt or unreadable
\* config) ends with a returned RepoState in which upstream_set=false; no such
\* error is raised to the caller.
C23_ReadErrorsDegrade ==
    (fn = "describe_repo" /\ Repo_opens(disk, disk.cwd) /\ ConfigReadError) =>
        /\ raised = ""
        /\ out.items.upstream_set = yaml_bool(FALSE)

\* C30: every RepoState the prober returns satisfies: upstream_set implies
\* remote_exists and not is_detached; has_uncommitted is true exactly when
\* staged_count + unstaged_count > 0, so it is false exactly when
\* worktree_state is clean; both counts are non-negative; and is_repo=false
\* implies every other field is at its default.
C30_RepoStateInvariants ==
    (fn \in {"describe_repo", "get_git_context"} /\ raised = "") =>
        LET state == out.items
        IN  /\ state.upstream_set = yaml_bool(TRUE) =>
                   /\ state.remote_exists = yaml_bool(TRUE)
                   /\ state.is_detached = yaml_bool(FALSE)
            /\ state.has_uncommitted = yaml_bool(TRUE)
                   <=> state.staged_count.n + state.unstaged_count.n > 0
            /\ state.has_uncommitted = yaml_bool(FALSE)
                   <=> worktree_state(_parse_git_context(out)) = "clean"
            /\ state.staged_count.n >= 0 /\ state.unstaged_count.n >= 0
            /\ state.is_repo = yaml_bool(FALSE) => out = dump_context(NOT_A_REPO)

C30_Witness ==
    /\ fn = "describe_repo" /\ raised = ""
    /\ disk.staged = 0 /\ disk.unstaged = 0 /\ disk.untracked > 0
    /\ out.items.upstream_set = yaml_bool(TRUE)
    /\ out.items.has_uncommitted = yaml_bool(TRUE)
    /\ out.items.unstaged_count.n > 0

\* C25: probing mutates nothing: no prober call changes the repository's
\* refs, index, configuration or working tree (its untracked files included)
\* and none writes a file.
C25_ProbingMutatesNothing == [][disk' = disk]_vars

\* The repository states that agree with c on is_repo, is_detached,
\* worktree_state, remote_exists and upstream_set, whatever their branch
\* name, their has_uncommitted and their counts.
SameFacts(c) ==
    { c2 \in { [c EXCEPT !.branch = b, !.has_uncommitted = h,
                         !.staged_count = s, !.unstaged_count = u] :
                   b \in {None, <<"m","a","i","n">>, <<"f","e","a","t","/","x">>},
                   h \in BOOLEAN, s \in 0..MaxCount, u \in 0..MaxCount } :
          worktree_state(c2) = worktree_state(c) }

\* C29: the plan depends on the RepoState only through is_repo, is_detached,
\* worktree_state, remote_exists and upstream_set: a state that agrees on
\* these five facts but differs in branch name, in has_uncommitted or in the
\* positive values of the counts yields the same plan for the intent; a push
\* that sets the upstream names "origin main" whatever the current branch.
C29_PlanDependsOnFiveFacts ==
    Planned =>
        /\ \A c2 \in SameFacts(ctx) : plan_by_intent(intent, c2) = plan
        /\ (intent = PUSH_TO_REMOTE /\ ~(ctx.is_repo /\ ctx.remote_exists /\ ctx.upstream_set))
               => InPlan(GIT_PUSH_UPSTREAM)

C29_Witness ==
    /\ Planned /\ intent = PUSH_TO_REMOTE
    /\ ctx.is_repo /\ ctx.branch = <<"m","a","i","n">> /\ ~ctx.has_uncommitted
    /\ ctx.staged_count = 1 /\ ctx.unstaged_count = MaxCount
    /\ ctx.remote_exists /\ ~ctx.upstream_set
    /\ plan = <<GIT_ADD_ALL, GIT_COMMIT_MESSAGE, GIT_PUSH_UPSTREAM>>
    /\ plan_by_intent(intent, [ctx EXCEPT !.branch = <<"f","e","a","t","/","x">>,
                                          !.has_uncommitted = TRUE,
                                          !.staged_count = MaxCount,
                                          !.unstaged_count = 1]) = plan

\* C26: any two save_conversation calls, however close in time, produce
\* distinct conversation file names, so a later message never overwrites the
\* file of an earlier one and each update attaches the response to the
\* message it answers.
C26_DistinctConversationFiles ==
    /\ \A i, j \in 1..Len(hist.calls) :
           i # j => hist.calls[i].filepath # hist.calls[j].filepath
    /\ \A i \in 1..Len(hist.calls) :
           \E f \in hist.files :
               f.name = hist.calls[i].filepath /\ f.data.user_input = hist.calls[i].message
    /\ \A f \in hist.files :
           f.data.AI_response # None => f.data.AI_response = response_to(f.data.user_input)

\* The request being run by process_message got past the repository check and
\* has the git context the planner gets.
HasPlanningContext ==
    /\ fn = "process_message"
    /\ \/ svc.pc \in {"probed", "saved"}
       \/ svc.pc = "returned" /\ llm_output # None

\* C24: within one process_message call one RepoState snapshot is taken and
\* used both for the repository check and for planning: also when the
\* repository changes while the request runs, the context the not-a-repo
\* decision was made on and the context the plan is made from are the same.
C24_OneSnapshotPerRequest ==
    HasPlanningContext => git_context_str = svc.validated_context

\* Whether text is a block as the planner's renderer writes it: two fences
\* around lines that are literal commands or "N/A".
IsPlannerBlock(text) ==
    LET body == splitlines(block_body(text))
    IN  /\ text = block_of(block_body(text))
        /\ body # <<>>
        /\ \A k \in 1..Len(body) : body[k] \in LiteralCommands \cup {NA}

EntersProcessMessage == fn = "none" /\ fn' = "process_message"

\* The step loads no model, saves no conversation and runs no planner.
NothingDone ==
    /\ svc'.model_loaded = svc.model_loaded
    /\ hist'.files = hist.files /\ hist'.calls = hist.calls
    /\ plan' = <<>> /\ llm_output' = None

\* C28: with git context enabled, process_message on a directory that is not
\* a repository returns the fixed text "please initialize the repo with: git
\* init" for every message, before the model is loaded, before the
\* conversation is saved and before the planner runs; with git context
\* disabled the check is skipped and the planner receives an empty context,
\* which it treats as is_repo=false with all fields at defaults.
C28_NotARepoAnsweredFirst ==
    [][ /\ (EntersProcessMessage /\ svc.git_context_enabled /\ ~Repo_opens(disk, disk.cwd)) =>
               /\ svc'.pc = "returned" /\ raised' = ""
               /\ out' = PLEASE_INITIALIZE
               /\ NothingDone
        /\ (fn = "process_message" /\ svc.pc = "returned" /\ llm_output = None) => NothingDone
        /\ (EntersProcessMessage /\ ~svc.git_context_enabled) =>
               svc'.pc = "validated" /\ out' = None
        /\ (fn = "process_message" /\ ~svc.git_context_enabled /\ svc.pc = "saved"
                /\ svc'.pc = "returned") =>
               /\ git_context_str = yaml_empty
               /\ ctx' = NOT_A_REPO
               /\ plan' = (IF intent' = None THEN <<NA>> ELSE plan_by_intent(intent', NOT_A_REPO))
               /\ out' = _bash_block(plan')
      ]_vars

C28_Witness ==
    /\ fn = "process_message" /\ svc.git_context_enabled
    /\ ~Repo_opens(disk, disk.cwd)
    /\ svc.pc = "returned" /\ out = PLEASE_INITIALIZE
    /\ svc.model_loaded /\ Len(hist.calls) = 1
    /\ plan = <<>> /\ llm_output = None

====
